---- MODULE Spec2Model ----
(***************************************************************************)
(* Model of the PDF -> text -> generator -> CSV pipeline of                *)
(* curriculum-mappin/index.py, pdftocsv/test.py and                        *)
(* curriculum-mappin/v1/index2.py.                                         *)
(*                                                                         *)
(* A text (a Python str) is a sequence of one-character strings.  A cache  *)
(* file is named by <<hex digest, extension>>; the digest of a byte        *)
(* sequence is modelled injectively, by the byte sequence itself.          *)
(***************************************************************************)
EXTENDS Integers, Sequences, FiniteSets, TLC

VARIABLES
    prog,       \* which program runs: "index", "cli" (pdftocsv/test.py), "v1"
    fs,         \* the source files: path -> document bytes, or NoFile
    cache,      \* CACHE_DIR: file name -> stored characters
    last,       \* the most recent call: its inputs, its outcome, the work it did
    firstText,  \* history: document bytes -> text of the first call that returned
    firstCsv,   \* history: <<text, prompt>> -> key derived, CSV first returned
    jobs,       \* the jobs running concurrently: job -> its position and locals
    output      \* the files written by save_csv_file: <<directory, name>> -> characters

vars == <<prog, fs, cache, last, firstText, firstCsv, jobs, output>>

----------------------------------------------------------------------------
(* Bounds of the model *)

MaxPages == 3
MaxAlnum == 51
MaxPunct == 27
MaxPad == 1
MaxLen == 6
MaxChunk == 3

----------------------------------------------------------------------------
(* Characters and strings *)

\* str.isspace / the regex class \s, on the characters used here
Whitespace == {" ", "\n", "\r", "\t"}

\* the regex class [a-zA-Z0-9]
Alnum ==
    {"a","b","c","d","e","f","g","h","i","j","k","l","m",
     "n","o","p","q","r","s","t","u","v","w","x","y","z",
     "A","B","C","D","E","F","G","H","I","J","K","L","M",
     "N","O","P","Q","R","S","T","U","V","W","X","Y","Z",
     "0","1","2","3","4","5","6","7","8","9"}

Rep(c, n) == [i \in 1..n |-> c]

RECURSIVE Concat(_)
Concat(ss) == IF ss = <<>> THEN <<>> ELSE Head(ss) \o Concat(Tail(ss))

\* str.lstrip(), str.rstrip(), str.strip(): whitespace removed at the ends
RECURSIVE LStrip(_)
LStrip(t) ==
    IF t # <<>> /\ Head(t) \in Whitespace THEN LStrip(Tail(t)) ELSE t

RECURSIVE RStrip(_)
RStrip(t) ==
    IF t # <<>> /\ t[Len(t)] \in Whitespace
    THEN RStrip(SubSeq(t, 1, Len(t) - 1)) ELSE t

Strip(t) == RStrip(LStrip(t))

StartsWith(t, p) == Len(t) >= Len(p) /\ SubSeq(t, 1, Len(p)) = p
EndsWith(t, p) == Len(t) >= Len(p) /\ SubSeq(t, Len(t) - Len(p) + 1, Len(t)) = p

\* t[n:] and t[:-n] for n >= 0 (Python slices clamp at the ends)
DropFirst(t, n) == SubSeq(t, n + 1, Len(t))
DropLast(t, n) == SubSeq(t, 1, Len(t) - n)

\* f"{i}" for a natural number
RECURSIVE Decimal(_)
Decimal(i) ==
    LET d == <<"0","1","2","3","4","5","6","7","8","9">>
    IN  IF i < 10 THEN <<d[i + 1]>> ELSE Decimal(i \div 10) \o <<d[(i % 10) + 1]>>

----------------------------------------------------------------------------
(* The cache files: Path.write_text(text, "utf-8") and read_text("utf-8") *)

\* hashlib.sha256(b).hexdigest(), injective on the bytes
Sha256(b) == <<"sha256", b>>

\* write_text stores the characters as given ("\n" is os.linesep here)
WriteText(t) == t

\* read_text opens the file with universal newlines: "\r\n" and a lone "\r"
\* both come back as "\n"
ReadText(b) ==
    LET Dropped(c) == c = "dropped"
        translated == [i \in 1..Len(b) |->
            IF b[i] = "\r" THEN "\n"
            ELSE IF b[i] = "\n" /\ i > 1 /\ b[i - 1] = "\r" THEN "dropped"
            ELSE b[i]]
    IN  SelectSeq(translated, LAMBDA c : ~Dropped(c))

\* the empty directory, the empty history
Empty == [x \in {} |-> <<>>]

\* a mapping with one entry added or replaced
Put(f, k, v) == [x \in DOMAIN f \cup {k} |-> IF x = k THEN v ELSE f[x]]

----------------------------------------------------------------------------
(* looks_like_bad_text: the quality gate *)

MinTextLen == 50

\* len(re.findall(r"[^a-zA-Z0-9\s]", text))
NonAlnumCount(text) ==
    Len(SelectSeq(text, LAMBDA c : c \notin Alnum /\ c \notin Whitespace))

\* the gate with the ratio taken over the trimmed text
looks_like_bad_text_trimmed(text) ==
    \/ Len(Strip(text)) < MinTextLen
    \/ 2 * NonAlnumCount(text) > Len(Strip(text))

\* non_alpha_ratio = count / max(len(text), 1); ratio > 0.5 is 2*count > max(len, 1)
looks_like_bad_text(text) ==
    IF Len(Strip(text)) < MinTextLen
    THEN TRUE
    ELSE 2 * NonAlnumCount(text)
             > (IF Len(text) > 1 THEN Len(text) ELSE 1)

----------------------------------------------------------------------------
(* Documents and the two extraction capabilities *)

PageEmpty == <<>>
PageShort == <<"a", "b", "c">>
PageGood == Rep("a", 30)
PageNoisy == Rep("#", 30)
PageCr == Rep("x", 28) \o <<"\r", "\n", "y">>

\* what page.extract_text() can give for a page
PageTexts == {PageEmpty, PageShort, PageGood, PageNoisy, PageCr}

\* what pytesseract.image_to_string can give for a page image
OcrTexts == {<<>>, <<"s", "c", "a", "n">>}

\* a document's bytes stand for its pages' text layers
Docs == UNION {[1..n -> PageTexts] : n \in 0..MaxPages}

Paths == {"a.pdf", "b.pdf"}

\* str(e) of an exception raised by an extraction library
ErrMsg == <<"e", "r", "r">>

\* pdfplumber.open(pdf_path) and the page loop: the pages' texts, or an error
PrimaryOutcomes(pdf_bytes) ==
    {[err |-> TRUE, pages |-> <<>>], [err |-> FALSE, pages |-> pdf_bytes]}

\* convert_from_path and image_to_string: one text per page (the same reading
\* for every page image of a call), or an error
OcrOutcomes(pdf_bytes) ==
    {[err |-> TRUE, pages |-> <<>>]}
        \cup {[err |-> FALSE, pages |-> [i \in 1..Len(pdf_bytes) |-> t]] :
                 t \in OcrTexts}

\* f"--- Page {i} Content ---\n{extracted}\n\n" for every page, concatenated
PrimaryText(pages) ==
    Concat([i \in 1..Len(pages) |->
        <<"-","-","-"," ","P","a","g","e"," ">> \o Decimal(i)
            \o <<" ","C","o","n","t","e","n","t"," ","-","-","-","\n">>
            \o pages[i] \o <<"\n", "\n">>])

\* f"--- OCR Page {i} Content ---\n{extracted}\n\n" for every page, concatenated
OcrText(pages) ==
    Concat([i \in 1..Len(pages) |->
        <<"-","-","-"," ","O","C","R"," ","P","a","g","e"," ">> \o Decimal(i)
            \o <<" ","C","o","n","t","e","n","t"," ","-","-","-","\n">>
            \o pages[i] \o <<"\n", "\n">>])

\* f"OCR processing failed: {e}"
OcrMarker ==
    <<"O","C","R"," ","p","r","o","c","e","s","s","i","n","g"," ",
      "f","a","i","l","e","d",":"," ">> \o ErrMsg

\* index.py: an OCR error is caught and becomes the marker text
extract_text_with_ocr(ocr) ==
    IF ocr.err THEN [raised |-> FALSE, text |-> OcrMarker]
    ELSE [raised |-> FALSE, text |-> OcrText(ocr.pages)]

\* pdftocsv/test.py: no try/except, an OCR error propagates
extract_text_with_ocr_cli(ocr) ==
    IF ocr.err THEN [raised |-> TRUE, text |-> <<>>]
    ELSE [raised |-> FALSE, text |-> OcrText(ocr.pages)]

\* v1/index2.py: "\n--- Page {i} ---\n" + (page.extract_text() or "") + "\n"
PrimaryTextV1(pages) ==
    Concat([i \in 1..Len(pages) |->
        <<"\n","-","-","-"," ","P","a","g","e"," ">> \o Decimal(i)
            \o <<" ","-","-","-","\n">> \o pages[i] \o <<"\n">>])

\* v1/index2.py: the OCR pages, or f"OCR failed: {e}" in place of the whole text
extract_text_with_ocr_v1(ocr) ==
    IF ocr.err
    THEN [raised |-> FALSE,
          text |-> <<"O","C","R"," ","f","a","i","l","e","d",":"," ">> \o ErrMsg]
    ELSE [raised |-> FALSE,
          text |-> Concat([i \in 1..Len(ocr.pages) |->
                    <<"\n","-","-","-"," ","O","C","R"," ","P","a","g","e"," ">>
                        \o Decimal(i) \o <<" ","-","-","-","\n">>
                        \o ocr.pages[i] \o <<"\n">>])]

----------------------------------------------------------------------------
(* get_pdf_text on a cache miss: what it returns, what it writes to          *)
(* cache_file, and the calls it makes.  route names the path taken.          *)

Extraction(outcome, text, writes, primaryCalls, ocrCalls, route) ==
    [outcome |-> outcome, text |-> text, writes |-> writes,
     primaryCalls |-> primaryCalls, ocrCalls |-> ocrCalls, route |-> route]

\* the except branch without its write_text
PrimaryErrorPath_NoWrite(ocr) ==
    LET r == extract_text_with_ocr(ocr)
    IN  Extraction("returned", r.text, <<>>, 1, 1,
                   IF ocr.err THEN "primary_error_ocr_error" ELSE "primary_error_ocr")

\* index.py: pdfplumber raised: OCR, write, return
PrimaryErrorPath(ocr) ==
    LET r == extract_text_with_ocr(ocr)
    IN  Extraction("returned", r.text, <<WriteText(r.text)>>, 1, 1,
                   IF ocr.err THEN "primary_error_ocr_error" ELSE "primary_error_ocr")

\* index.py: the primary text went through: gate, OCR if rejected, write, return
GatePath(text, ocr) ==
    IF looks_like_bad_text(text)
    THEN LET r == extract_text_with_ocr(ocr)
         IN  Extraction("returned", r.text, <<WriteText(r.text)>>, 1, 1,
                        IF ocr.err THEN "gate_ocr_error" ELSE "gate_ocr")
    ELSE Extraction("returned", text, <<WriteText(text)>>, 1, 0, "primary")

ExtractOnMiss(prim, ocr) ==
    IF prim.err THEN PrimaryErrorPath(ocr)
    ELSE GatePath(PrimaryText(prim.pages), ocr)

\* pdftocsv/test.py: no try/except around pdfplumber or around OCR
ExtractOnMissCli(prim, ocr) ==
    IF prim.err THEN Extraction("raised", <<>>, <<>>, 1, 0, "primary_error")
    ELSE LET text == PrimaryText(prim.pages)
         IN  IF looks_like_bad_text(text)
             THEN LET r == extract_text_with_ocr_cli(ocr)
                  IN  IF r.raised
                      THEN Extraction("raised", <<>>, <<>>, 1, 1, "gate_ocr_error")
                      ELSE Extraction("returned", r.text, <<WriteText(r.text)>>,
                                      1, 1, "gate_ocr")
             ELSE Extraction("returned", text, <<WriteText(text)>>, 1, 0, "primary")

\* v1/index2.py: no quality gate; OCR only when pdfplumber raised
ExtractOnMissV1(prim, ocr) ==
    IF prim.err
    THEN LET r == extract_text_with_ocr_v1(ocr)
         IN  Extraction("returned", r.text, <<WriteText(r.text)>>, 1, 1,
                        IF ocr.err THEN "primary_error_ocr_error"
                        ELSE "primary_error_ocr")
    ELSE Extraction("returned", PrimaryTextV1(prim.pages),
                    <<WriteText(PrimaryTextV1(prim.pages))>>, 1, 0, "primary")

----------------------------------------------------------------------------
(* get_pdf_text *)

\* the existence check skipped: a missing file reads as no bytes
PathExists_Unchecked(pdf_path) == TRUE

\* pdf_path.exists(); in v1 it is read_bytes() that raises FileNotFoundError
PathExists(pdf_path) == fs[pdf_path].exists

\* cache_file = CACHE_DIR / f"{pdf_hash}.txt"
TextCacheFile(pdf_bytes) == <<Sha256(pdf_bytes), "txt">>

RECURSIVE WriteAll(_, _, _)
WriteAll(dir, name, writes) ==
    IF writes = <<>> THEN dir
    ELSE WriteAll(Put(dir, name, Head(writes)), name, Tail(writes))

NoCall ==
    [op |-> "none", path |-> "", outcome |-> "none", text |-> <<>>, hit |-> FALSE,
     primaryCalls |-> 0, ocrCalls |-> 0, generatorCalls |-> 0, route |-> "none",
     priorKnown |-> FALSE, priorText |-> <<>>, pdf_text |-> <<>>,
     user_prompt |-> <<>>, response |-> <<>>, body |-> <<>>, fenced |-> FALSE,
     params |-> <<>>, result |-> FALSE, chunks |-> <<>>]

PdfTextCall(pdf_path, miss) ==
    IF ~PathExists(pdf_path)
    THEN /\ last' = [NoCall EXCEPT !.op = "get_pdf_text", !.path = pdf_path,
                                   !.outcome = "FileNotFoundError"]
         /\ UNCHANGED <<cache, firstText>>
    ELSE LET pdf_bytes == fs[pdf_path].bytes
             cache_file == TextCacheFile(pdf_bytes)
             hit == cache_file \in DOMAIN cache
             r == IF hit
                  THEN Extraction("returned", ReadText(cache[cache_file]),
                                  <<>>, 0, 0, "cache")
                  ELSE miss
         IN  /\ cache' = WriteAll(cache, cache_file, r.writes)
             /\ last' = [NoCall EXCEPT !.op = "get_pdf_text", !.path = pdf_path,
                            !.outcome = r.outcome, !.text = r.text, !.hit = hit,
                            !.primaryCalls = r.primaryCalls, !.ocrCalls = r.ocrCalls,
                            !.route = r.route,
                            !.priorKnown = pdf_bytes \in DOMAIN firstText,
                            !.priorText = IF pdf_bytes \in DOMAIN firstText
                                          THEN firstText[pdf_bytes] ELSE <<>>]
             /\ firstText' = IF r.outcome = "returned"
                                   /\ pdf_bytes \notin DOMAIN firstText
                             THEN Put(firstText, pdf_bytes, r.text)
                             ELSE firstText

\* curriculum-mappin/index.py
get_pdf_text(pdf_path, prim, ocr) ==
    /\ prog = "index"
    /\ PdfTextCall(pdf_path, ExtractOnMiss(prim, ocr))
    /\ UNCHANGED <<prog, fs, firstCsv, jobs, output>>

\* pdftocsv/test.py
get_pdf_text_cli(pdf_path, prim, ocr) ==
    /\ prog = "cli"
    /\ PdfTextCall(pdf_path, ExtractOnMissCli(prim, ocr))
    /\ UNCHANGED <<prog, fs, firstCsv, jobs, output>>

\* curriculum-mappin/v1/index2.py
get_pdf_text_v1(pdf_path, prim, ocr) ==
    /\ prog = "v1"
    /\ PdfTextCall(pdf_path, ExtractOnMissV1(prim, ocr))
    /\ UNCHANGED <<prog, fs, firstCsv, jobs, output>>

Missing == [exists |-> FALSE, bytes |-> <<>>]
File(d) == [exists |-> TRUE, bytes |-> d]

InitText ==
    /\ prog \in {"index", "cli", "v1"}
    /\ \E d \in Docs : fs \in [Paths -> {Missing, File(d)}]
    /\ cache = Empty
    /\ last = NoCall
    /\ firstText = Empty
    /\ firstCsv = Empty
    /\ jobs = Empty
    /\ output = Empty

\* the capabilities are consulted on a cache miss only
IsMiss(pdf_path) ==
    PathExists(pdf_path) /\ TextCacheFile(fs[pdf_path].bytes) \notin DOMAIN cache

NotCalled == [err |-> FALSE, pages |-> <<>>]

NextText ==
    \E pdf_path \in Paths :
        \E prim \in (IF IsMiss(pdf_path) THEN PrimaryOutcomes(fs[pdf_path].bytes)
                     ELSE {NotCalled}),
           ocr \in (IF IsMiss(pdf_path) THEN OcrOutcomes(fs[pdf_path].bytes)
                    ELSE {NotCalled}) :
            \/ get_pdf_text(pdf_path, prim, ocr)
            \/ get_pdf_text_cli(pdf_path, prim, ocr)
            \/ get_pdf_text_v1(pdf_path, prim, ocr)

SpecText == InitText /\ [][NextText]_vars

----------------------------------------------------------------------------
(* generate_csv_from_text *)

\* len(text.splitlines()) on the line ends used here ("\n", "\r\n", "\r")
SplitLinesLen(text) ==
    LET t == ReadText(text)
    IN  Len(SelectSeq(t, LAMBDA c : c = "\n"))
            + (IF t # <<>> /\ t[Len(t)] # "\n" THEN 1 ELSE 0)

\* the backquote character, which a string of this notation cannot hold
Backquote == "backquote"

\* the opening fence, three backquotes and csv, and the closing fence
FenceCsv == <<Backquote, Backquote, Backquote, "c", "s", "v">>
Fence == <<Backquote, Backquote, Backquote>>

\* csv_output = response.text.strip(); csv_output[5:].strip() after an opening
\* fence; csv_output[:-3].strip() before a closing fence
CleanCsv(response_text) ==
    LET s0 == Strip(response_text)
        s1 == IF StartsWith(s0, FenceCsv) THEN Strip(DropFirst(s0, 5)) ELSE s0
    IN  IF EndsWith(s1, Fence) THEN Strip(DropLast(s1, 3)) ELSE s1

\* request_hash = sha256((pdf_text + user_prompt).encode("utf-8")).hexdigest()
RequestHash(pdf_text, user_prompt) == Sha256(pdf_text \o user_prompt)

\* cache_file = CACHE_DIR / f"{request_hash}.csv"
CsvCacheFile(pdf_text, user_prompt) == <<RequestHash(pdf_text, user_prompt), "csv">>

Generation(outcome, text, writes, generatorCalls) ==
    [outcome |-> outcome, text |-> text, writes |-> writes,
     generatorCalls |-> generatorCalls]

\* index.py: the try block; every exception becomes a ValueError
GenerateOnMiss(gen) ==
    IF gen.err THEN Generation("ValueError", <<>>, <<>>, 1)
    ELSE LET csv_output == CleanCsv(gen.text)
         IN  IF csv_output = <<>> \/ SplitLinesLen(csv_output) < 1
             THEN Generation("ValueError", <<>>, <<>>, 1)
             ELSE Generation("returned", csv_output, <<WriteText(csv_output)>>, 1)

\* pdftocsv/test.py: no try block and no emptiness check
GenerateOnMissCli(gen) ==
    IF gen.err THEN Generation("raised", <<>>, <<>>, 1)
    ELSE LET csv_output == CleanCsv(gen.text)
         IN  Generation("returned", csv_output, <<WriteText(csv_output)>>, 1)

CsvCall(pdf_text, user_prompt, gen, miss) ==
    LET cache_file == CsvCacheFile(pdf_text, user_prompt)
        hit == cache_file \in DOMAIN cache
        r == IF hit
             THEN Generation("returned", ReadText(cache[cache_file]), <<>>, 0)
             ELSE miss
        pair == <<pdf_text, user_prompt>>
        known == pair \in DOMAIN firstCsv /\ firstCsv[pair].known
    IN  /\ cache' = WriteAll(cache, cache_file, r.writes)
        /\ last' = [NoCall EXCEPT !.op = "generate_csv_from_text",
                       !.pdf_text = pdf_text, !.user_prompt = user_prompt,
                       !.response = IF hit THEN <<>> ELSE gen.text,
                       !.body = IF hit THEN <<>> ELSE gen.body,
                       !.fenced = ~hit /\ gen.fenced,
                       !.outcome = r.outcome, !.text = r.text, !.hit = hit,
                       !.generatorCalls = r.generatorCalls,
                       !.priorKnown = known,
                       !.priorText = IF known THEN firstCsv[pair].text ELSE <<>>]
        /\ firstCsv' =
              IF known THEN firstCsv
              ELSE Put(firstCsv, pair,
                       [key |-> RequestHash(pdf_text, user_prompt),
                        known |-> r.outcome = "returned",
                        text |-> r.text])

\* curriculum-mappin/index.py
generate_csv_from_text(pdf_text, user_prompt, gen) ==
    /\ prog = "index"
    /\ CsvCall(pdf_text, user_prompt, gen, GenerateOnMiss(gen))
    /\ UNCHANGED <<prog, fs, firstText, jobs, output>>

\* pdftocsv/test.py
generate_csv_from_text_cli(pdf_text, user_prompt, gen) ==
    /\ prog = "cli"
    /\ CsvCall(pdf_text, user_prompt, gen, GenerateOnMissCli(gen))
    /\ UNCHANGED <<prog, fs, firstText, jobs, output>>

\* the texts and instructions of the requests
PdfTexts == {<<"a">>, <<"a", "b">>}
UserPrompts == {<<"c">>, <<"b", "c">>}

\* CSV bodies a generator can give: LF and CRLF line ends, padding, one line, none
CsvBodies ==
    {<<"h", "\n", "1">>,
     <<"h", "\r", "\n", "1">>,
     <<" ", "h", "\n", "1", "\n">>,
     <<"h">>,
     <<>>}

Fenced(body) == FenceCsv \o <<"\n">> \o body \o <<"\n">> \o Fence

\* model.generate_content(...): an error or timeout, or a text, fenced or not
GeneratorOutcomes ==
    {[err |-> TRUE, text |-> <<>>, body |-> <<>>, fenced |-> FALSE]}
        \cup {[err |-> FALSE, text |-> b, body |-> b, fenced |-> FALSE] :
                 b \in CsvBodies}
        \cup {[err |-> FALSE, text |-> Fenced(b), body |-> b, fenced |-> TRUE] :
                 b \in CsvBodies}

GeneratorNotCalled == [err |-> FALSE, text |-> <<>>, body |-> <<>>, fenced |-> FALSE]

InitCsv ==
    /\ prog \in {"index", "cli"}
    /\ fs = [p \in Paths |-> Missing]
    /\ cache = Empty
    /\ last = NoCall
    /\ firstText = Empty
    /\ firstCsv = Empty
    /\ jobs = Empty
    /\ output = Empty

NextCsv ==
    \E pdf_text \in PdfTexts, user_prompt \in UserPrompts :
        \E gen \in (IF CsvCacheFile(pdf_text, user_prompt) \in DOMAIN cache
                    THEN {GeneratorNotCalled} ELSE GeneratorOutcomes) :
            \/ generate_csv_from_text(pdf_text, user_prompt, gen)
            \/ generate_csv_from_text_cli(pdf_text, user_prompt, gen)

SpecCsv == InitCsv /\ [][NextCsv]_vars

----------------------------------------------------------------------------
(* The chunking of extract_pdf_data (v1/index2.py, v1/index2_backup.py) *)

\* range(start, stop, step) for step > 0
RECURSIVE Range(_, _, _)
Range(start, stop, step) ==
    IF start >= stop THEN <<>> ELSE <<start>> \o Range(start + step, stop, step)

\* t[i:j] for 0 <= i <= j, clamped at the end of t
Slice(t, i, j) == SubSeq(t, i + 1, IF j < Len(t) THEN j ELSE Len(t))

\* the chunks with each slice one character too long
Chunks_Overlap(pdf_text, size) ==
    LET starts == Range(0, Len(pdf_text), size)
    IN  [k \in 1..Len(starts) |-> Slice(pdf_text, starts[k], starts[k] + size + 1)]

\* chunks = [pdf_text[i:i + size] for i in range(0, len(pdf_text), size)],
\* where the code has size = 150000
Chunks(pdf_text, size) ==
    LET starts == Range(0, Len(pdf_text), size)
    IN  [k \in 1..Len(starts) |-> Slice(pdf_text, starts[k], starts[k] + size)]

ChunkTexts == UNION {[1..n -> {"a", "b"}] : n \in 0..MaxLen}

\* the text and the size are given; the step cuts the text
ChunkText ==
    /\ last.op = "chunks_input"
    /\ last' = [last EXCEPT !.op = "chunks",
                   !.chunks = Chunks(last.params.text, last.params.size)]
    /\ UNCHANGED <<prog, fs, cache, firstText, firstCsv, jobs, output>>

InitChunk ==
    /\ prog = "v1"
    /\ fs = [p \in Paths |-> Missing]
    /\ cache = Empty
    /\ \E pdf_text \in ChunkTexts, size \in 1..MaxChunk :
           last = [NoCall EXCEPT !.op = "chunks_input",
                      !.params = [text |-> pdf_text, size |-> size]]
    /\ firstText = Empty
    /\ firstCsv = Empty
    /\ jobs = Empty
    /\ output = Empty

NextChunk == ChunkText

SpecChunk == InitChunk /\ [][NextChunk]_vars

----------------------------------------------------------------------------
(* The quality gate applied to texts of every shape around its thresholds *)

\* lead spaces, punct "#", inner newlines, alnum letters, trail tabs
GateText(q) ==
    Rep(" ", q.lead) \o Rep("#", q.punct) \o Rep("\n", q.inner)
        \o Rep("a", q.alnum) \o Rep("\t", q.trail)

GateParams ==
    [lead : 0..MaxPad, punct : 0..MaxPunct, inner : 0..MaxPad,
     alnum : 0..MaxAlnum, trail : 0..MaxPad]

\* the text is given; the step judges it
JudgeText ==
    /\ last.op = "gate_input"
    /\ last' = [last EXCEPT !.op = "looks_like_bad_text",
                   !.result = looks_like_bad_text(last.text)]
    /\ UNCHANGED <<prog, fs, cache, firstText, firstCsv, jobs, output>>

InitGate ==
    /\ prog = "index"
    /\ fs = [p \in Paths |-> Missing]
    /\ cache = Empty
    /\ \E q \in GateParams :
           last = [NoCall EXCEPT !.op = "gate_input", !.params = q,
                      !.text = GateText(q)]
    /\ firstText = Empty
    /\ firstCsv = Empty
    /\ jobs = Empty
    /\ output = Empty

NextGate == JudgeText

SpecGate == InitGate /\ [][NextGate]_vars

----------------------------------------------------------------------------
(* Properties of get_pdf_text, checked under SpecText *)

IsPdfTextCall == last.op = "get_pdf_text"
LastBytes == fs[last.path].bytes

\* C1: in index.py, once a call for some content has returned, a later call
\* with byte-identical content returns exactly the text of the first call
\* and calls neither pdfplumber nor OCR.
C1_RepeatReturnsFirstText ==
    (prog = "index" /\ IsPdfTextCall /\ last.outcome = "returned" /\ last.priorKnown)
        => /\ last.text = last.priorText
           /\ last.primaryCalls = 0
           /\ last.ocrCalls = 0

\* The part of C1 that holds: a repeated call does no extraction work and
\* returns the first text as read_text translates it.
RepeatCallDoesNoExtraction ==
    (IsPdfTextCall /\ last.outcome = "returned" /\ last.priorKnown)
        => /\ last.text = ReadText(last.priorText)
           /\ last.primaryCalls = 0
           /\ last.ocrCalls = 0

RECURSIVE TextLayerChars(_)
TextLayerChars(pages) ==
    IF pages = <<>> THEN 0 ELSE Len(Head(pages)) + TextLayerChars(Tail(pages))

\* C6: on a cache miss, a document whose text layer yields fewer than 50
\* characters in total (whatever its page count) has OCR invoked exactly once
\* and the OCR output returned, not the primary text.
C6_SparseTextLayerGoesToOcr ==
    (prog = "index" /\ IsPdfTextCall /\ last.outcome = "returned" /\ ~last.hit
        /\ TextLayerChars(LastBytes) < MinTextLen)
        => last.ocrCalls = 1 /\ last.route # "primary"

\* What the code does instead: OCR runs exactly when pdfplumber raised or the
\* text with its page headers fails the gate.
OcrExactlyWhenGateRejectsHeaderedText ==
    (prog = "index" /\ IsPdfTextCall /\ last.outcome = "returned" /\ ~last.hit
        /\ last.route \notin {"primary_error_ocr", "primary_error_ocr_error"})
        => (last.ocrCalls = 1 <=> looks_like_bad_text(PrimaryText(LastBytes)))

\* C7: whenever get_pdf_text returns on a cache miss, by whichever path, the
\* cache holds an entry under the document's fingerprint whose content is
\* the returned text (the empty text and the OCR-failure marker included).
C7_MissLeavesReturnedTextCached ==
    (IsPdfTextCall /\ last.outcome = "returned" /\ ~last.hit)
        => /\ TextCacheFile(LastBytes) \in DOMAIN cache
           /\ cache[TextCacheFile(LastBytes)] = last.text

\* C7's case: pdfplumber raised, OCR raised too, the marker was returned
C7_Witness ==
    /\ prog = "index" /\ IsPdfTextCall /\ ~last.hit
    /\ last.route = "primary_error_ocr_error"
    /\ last.text = OcrMarker

C7_WitnessEmptyText ==
    IsPdfTextCall /\ ~last.hit /\ last.outcome = "returned" /\ last.text = <<>>

C7_WitnessGateOcr ==
    IsPdfTextCall /\ ~last.hit /\ last.route = "gate_ocr"

C7_WitnessPrimary ==
    IsPdfTextCall /\ ~last.hit /\ last.route = "primary"

\* C8: a call with a path that does not exist fails with FileNotFoundError,
\* calls neither pdfplumber nor OCR, and creates or changes no cache entry.
C8_MissingFileFailsFast ==
    [][(last'.op = "get_pdf_text" /\ ~fs[last'.path].exists)
        => /\ last'.outcome = "FileNotFoundError"
           /\ last'.primaryCalls = 0
           /\ last'.ocrCalls = 0
           /\ cache' = cache]_vars

\* C8's case: the missing path is asked for while the cache holds an entry
C8_Witness ==
    /\ IsPdfTextCall /\ ~fs[last.path].exists
    /\ last.outcome = "FileNotFoundError"
    /\ cache # Empty

\* C9: for an existing file get_pdf_text (index.py, pdftocsv/test.py) never
\* propagates an extraction or OCR error: it returns, and when OCR raised the
\* text returned is the OCR-failure marker.
C9_NeverPropagatesExtractionErrors ==
    (prog \in {"index", "cli"} /\ IsPdfTextCall /\ fs[last.path].exists)
        => /\ last.outcome = "returned"
           /\ (last.route \in {"primary_error_ocr_error", "gate_ocr_error"}
                  => last.text = OcrMarker)

\* C9 holds of index.py's get_pdf_text alone
IndexNeverPropagatesExtractionErrors ==
    (prog = "index" /\ IsPdfTextCall /\ fs[last.path].exists)
        => /\ last.outcome = "returned"
           /\ (last.route \in {"primary_error_ocr_error", "gate_ocr_error"}
                  => last.text = OcrMarker)

----------------------------------------------------------------------------
(* Properties of generate_csv_from_text, checked under SpecCsv *)

IsCsvCall == last.op = "generate_csv_from_text"

\* C2: after generate_csv_from_text has once returned for a text and an
\* instruction, every later call with the same two returns the same CSV and
\* makes zero generator calls, whatever was processed in between.
C2_RepeatReturnsSameCsv ==
    (IsCsvCall /\ last.outcome = "returned" /\ last.priorKnown)
        => last.text = last.priorText /\ last.generatorCalls = 0

\* The part of C2 that holds: no generator call, and the first CSV as
\* read_text translates it.
RepeatRequestCallsNoGenerator ==
    (IsCsvCall /\ last.priorKnown)
        => /\ last.outcome = "returned"
           /\ last.generatorCalls = 0
           /\ last.text = ReadText(last.priorText)

\* C3: two (text, instruction) pairs that differ in either component get
\* different cache keys, also when they split the same overall character
\* sequence differently.
C3_DistinctPairsDistinctKeys ==
    \A q1 \in DOMAIN firstCsv, q2 \in DOMAIN firstCsv :
        q1 # q2 => firstCsv[q1].key # firstCsv[q2].key

\* What concatenation does give: pairs that share one component and differ
\* in the other get different keys.
PairsDifferingInOneComponentDistinctKeys ==
    \A q1 \in DOMAIN firstCsv, q2 \in DOMAIN firstCsv :
        (q1 # q2 /\ (q1[1] = q2[1] \/ q1[2] = q2[2]))
            => firstCsv[q1].key # firstCsv[q2].key

\* C10: for a response made of the opening csv fence, a CSV body and the
\* closing fence, the call returns and caches exactly the trimmed body, and a
\* response without fences is returned trimmed and otherwise unchanged.
C10_FencesRemovedExactly ==
    (IsCsvCall /\ last.outcome = "returned" /\ ~last.hit
        /\ Strip(last.body) # <<>>)
        => /\ last.text = Strip(last.body)
           /\ cache[CsvCacheFile(last.pdf_text, last.user_prompt)] = last.text

\* The part of C10 that holds: a response without fences comes back trimmed.
UnfencedResponseReturnedTrimmed ==
    (IsCsvCall /\ last.outcome = "returned" /\ ~last.hit /\ ~last.fenced)
        => /\ last.text = Strip(last.response)
           /\ cache[CsvCacheFile(last.pdf_text, last.user_prompt)] = last.text

----------------------------------------------------------------------------
(* Properties of the chunking, checked under SpecChunk *)

\* the least n with n * size >= len
CeilDiv(len, size) ==
    CHOOSE n \in 0..len : n * size >= len /\ \A m \in 0..(n - 1) : m * size < len

\* C4: a text of length L is cut into exactly ceil(L/M) chunks (none for the
\* empty text), each of length 1..M, whose concatenation in order is the text.
C4_ChunksCoverTextExactly ==
    last.op = "chunks" =>
        LET T == last.params.text
            M == last.params.size
        IN  /\ Len(last.chunks) = CeilDiv(Len(T), M)
            /\ \A k \in 1..Len(last.chunks) :
                   Len(last.chunks[k]) >= 1 /\ Len(last.chunks[k]) <= M
            /\ Concat(last.chunks) = T

\* C4's case: several chunks, the last one shorter than the maximum
C4_Witness ==
    /\ last.op = "chunks"
    /\ Len(last.chunks) >= 3
    /\ Len(last.chunks[Len(last.chunks)]) < last.params.size

C4_WitnessEmptyText ==
    last.op = "chunks" /\ last.params.text = <<>> /\ last.chunks = <<>>

----------------------------------------------------------------------------
(* Properties of the quality gate, checked under SpecGate *)

\* the length of the text once trimmed, from its shape
TrimmedLen(q) ==
    IF q.punct = 0 THEN q.alnum
    ELSE IF q.alnum = 0 THEN q.punct
    ELSE q.punct + q.inner + q.alnum

TotalLen(q) == q.lead + q.punct + q.inner + q.alnum + q.trail

\* C5: looks_like_bad_text is true exactly when the trimmed text has fewer
\* than 50 characters or the characters that are neither alphanumeric nor
\* whitespace are strictly more than half of the untrimmed length.
C5_GateRejectsExactlyShortOrNoisy ==
    last.op = "looks_like_bad_text" =>
        (last.result <=> (\/ TrimmedLen(last.params) < 50
                          \/ 2 * last.params.punct > TotalLen(last.params)))

\* C5's case: 50 characters or more, exactly half of them punctuation, accepted
C5_Witness ==
    /\ last.op = "looks_like_bad_text"
    /\ TrimmedLen(last.params) >= 50
    /\ 2 * last.params.punct = TotalLen(last.params)
    /\ ~last.result

\* 49 characters are rejected
C5_Witness49 ==
    /\ last.op = "looks_like_bad_text"
    /\ last.params = [lead |-> 0, punct |-> 0, inner |-> 0, alnum |-> 49, trail |-> 0]
    /\ last.result

\* 50 plain letters are accepted
C5_Witness50 ==
    /\ last.op = "looks_like_bad_text"
    /\ last.params = [lead |-> 0, punct |-> 0, inner |-> 0, alnum |-> 50, trail |-> 0]
    /\ ~last.result

\* more than half of the trimmed text but not of the untrimmed one: accepted
C5_WitnessPadding ==
    /\ last.op = "looks_like_bad_text"
    /\ TrimmedLen(last.params) >= 50
    /\ 2 * last.params.punct > TrimmedLen(last.params)
    /\ ~last.result

----------------------------------------------------------------------------
(* json.loads, on the JSON texts written with the characters used here:    *)
(* brackets, braces, comma, colon, the double quote, digits, letters, the  *)
(* literals null, true and false, and whitespace (no backslash escapes,    *)
(* signs or fractions)                                                     *)

JsonWs == {" ", "\n", "\r", "\t"}
JsonDigits == {"0", "1", "2", "3", "4", "5", "6", "7", "8", "9"}
Quote == "\""

\* a parsed value: a list of values, a dict of <<key, value>> pairs in
\* insertion order, a number or a string by its characters, a literal
JsonValue(kind, items, s) == [kind |-> kind, items |-> items, s |-> s]
JsonList(items) == JsonValue("list", items, <<>>)
JsonDict(items) == JsonValue("dict", items, <<>>)
JsonNull == JsonValue("null", <<>>, <<>>)

\* the truth value Python gives a parsed value (if data: / if not data:)
Truthy(v) ==
    CASE v.kind \in {"list", "dict"} -> v.items # <<>>
      [] v.kind = "str" -> v.s # <<>>
      [] v.kind = "num" -> \E i \in 1..Len(v.s) : v.s[i] # "0"
      [] v.kind = "true" -> TRUE
      [] OTHER -> FALSE

JsonError == [ok |-> FALSE, pos |-> 0, val |-> JsonNull]
JsonParsed(pos, val) == [ok |-> TRUE, pos |-> pos, val |-> val]

MatchAt(t, i, p) == i + Len(p) - 1 <= Len(t) /\ SubSeq(t, i, i + Len(p) - 1) = p

RECURSIVE SkipWs(_, _)
SkipWs(t, i) == IF i <= Len(t) /\ t[i] \in JsonWs THEN SkipWs(t, i + 1) ELSE i

RECURSIVE SkipDigits(_, _)
SkipDigits(t, i) ==
    IF i <= Len(t) /\ t[i] \in JsonDigits THEN SkipDigits(t, i + 1) ELSE i

\* the index of the first c at or after i, Len(t) + 1 when there is none
RECURSIVE IndexFrom(_, _, _)
IndexFrom(t, c, i) ==
    IF i > Len(t) \/ t[i] = c THEN i ELSE IndexFrom(t, c, i + 1)

\* a string literal opening at i: up to the next quote, no control character
ParseString(t, i) ==
    LET j == IndexFrom(t, Quote, i + 1)
        chars == SubSeq(t, i + 1, j - 1)
    IN  IF j > Len(t) \/ \E k \in 1..Len(chars) : chars[k] \in {"\n", "\r", "\t"}
        THEN JsonError
        ELSE JsonParsed(j + 1, JsonValue("str", <<>>, chars))

\* a number opening at i: digits, with no zero in front of another digit
ParseNumber(t, i) ==
    LET j == SkipDigits(t, i)
    IN  IF t[i] = "0" THEN JsonParsed(i + 1, JsonValue("num", <<>>, <<"0">>))
        ELSE JsonParsed(j, JsonValue("num", <<>>, SubSeq(t, i, j - 1)))

\* d[k] = v on a dict kept as pairs in insertion order
DictPut(items, k, v) ==
    IF \E n \in 1..Len(items) : items[n][1] = k
    THEN [n \in 1..Len(items) |-> IF items[n][1] = k THEN <<k, v>> ELSE items[n]]
    ELSE Append(items, <<k, v>>)

RECURSIVE ParseValue(_, _), ParseItems(_, _, _), ParseMembers(_, _, _)

\* the value that opens at index i of t
ParseValue(t, i) ==
    IF i > Len(t) THEN JsonError
    ELSE CASE t[i] = "[" ->
                  LET j == SkipWs(t, i + 1)
                  IN  IF j <= Len(t) /\ t[j] = "]"
                      THEN JsonParsed(j + 1, JsonList(<<>>))
                      ELSE ParseItems(t, j, <<>>)
           [] t[i] = "{" ->
                  LET j == SkipWs(t, i + 1)
                  IN  IF j <= Len(t) /\ t[j] = "}"
                      THEN JsonParsed(j + 1, JsonDict(<<>>))
                      ELSE ParseMembers(t, j, <<>>)
           [] t[i] = Quote -> ParseString(t, i)
           [] t[i] \in JsonDigits -> ParseNumber(t, i)
           [] MatchAt(t, i, <<"n", "u", "l", "l">>) -> JsonParsed(i + 4, JsonNull)
           [] MatchAt(t, i, <<"t", "r", "u", "e">>) ->
                  JsonParsed(i + 4, JsonValue("true", <<>>, <<>>))
           [] MatchAt(t, i, <<"f", "a", "l", "s", "e">>) ->
                  JsonParsed(i + 5, JsonValue("false", <<>>, <<>>))
           [] OTHER -> JsonError

\* the items of a list from index i on, acc being those already parsed
ParseItems(t, i, acc) ==
    LET r == ParseValue(t, i)
        j == SkipWs(t, r.pos)
    IN  IF ~r.ok \/ j > Len(t) THEN JsonError
        ELSE IF t[j] = "]" THEN JsonParsed(j + 1, JsonList(Append(acc, r.val)))
        ELSE IF t[j] = "," THEN ParseItems(t, SkipWs(t, j + 1), Append(acc, r.val))
        ELSE JsonError

\* the members of a dict from index i on: a string key, a colon, a value
ParseMembers(t, i, acc) ==
    IF i > Len(t) \/ t[i] # Quote THEN JsonError
    ELSE LET k == ParseString(t, i)
             c == SkipWs(t, k.pos)
         IN  IF ~k.ok \/ c > Len(t) \/ t[c] # ":" THEN JsonError
             ELSE LET r == ParseValue(t, SkipWs(t, c + 1))
                      j == SkipWs(t, r.pos)
                      items == DictPut(acc, k.val.s, r.val)
                  IN  IF ~r.ok \/ j > Len(t) THEN JsonError
                      ELSE IF t[j] = "}" THEN JsonParsed(j + 1, JsonDict(items))
                      ELSE IF t[j] = ","
                           THEN ParseMembers(t, SkipWs(t, j + 1), items)
                      ELSE JsonError

\* json.loads(t): one value with whitespace around it and nothing else;
\* ok is FALSE where json.loads raises
JsonLoads(t) ==
    LET r == ParseValue(t, SkipWs(t, 1))
    IN  IF r.ok /\ SkipWs(t, r.pos) = Len(t) + 1 THEN r ELSE JsonError

----------------------------------------------------------------------------
(* safe_json_loads (v1/index2.py) *)

\* str.strip(chars)
RECURSIVE LStripChars(_, _)
LStripChars(t, chars) ==
    IF t # <<>> /\ Head(t) \in chars THEN LStripChars(Tail(t), chars) ELSE t

RECURSIVE RStripChars(_, _)
RStripChars(t, chars) ==
    IF t # <<>> /\ t[Len(t)] \in chars
    THEN RStripChars(SubSeq(t, 1, Len(t) - 1), chars) ELSE t

StripChars(t, chars) == RStripChars(LStripChars(t, chars), chars)

\* three backquotes and json
FenceJson == <<Backquote, Backquote, Backquote, "j", "s", "o", "n">>

\* where the regex anchors ^ and $ match, with and without re.MULTILINE;
\* for $ the index is the one after the match
AtLineStart(t, i, multiline) == i = 1 \/ (multiline /\ t[i - 1] = "\n")
AtLineEnd(t, i, multiline) ==
    i = Len(t) + 1 \/ (t[i] = "\n" /\ (multiline \/ i = Len(t)))

\* re.sub of the pattern: opening fence at ^, or closing fence at $, by "".
\* No two matches overlap (an opening fence holds no line break and is not
\* three backquotes from its second character on; a closing fence is
\* followed by a line break or the end), so a character goes exactly when
\* it lies in a match
SubFences(t, multiline) ==
    LET Opening(i) == AtLineStart(t, i, multiline) /\ MatchAt(t, i, FenceJson)
        Closing(i) ==
            /\ MatchAt(t, i, Fence)
            /\ AtLineEnd(t, i + Len(Fence), multiline)
            /\ ~Opening(i)
        Matched(k) ==
            \/ \E i \in (k - Len(FenceJson) + 1)..k : i >= 1 /\ Opening(i)
            \/ \E i \in (k - Len(Fence) + 1)..k : i >= 1 /\ Closing(i)
        marked == [k \in 1..Len(t) |-> IF Matched(k) THEN "dropped" ELSE t[k]]
    IN  SelectSeq(marked, LAMBDA c : c # "dropped")

\* re.sub of: comma, any whitespace, closer; by the closer.  The comma and
\* the whitespace of a match go, the closer stays
SubTrailingComma(t, closer) ==
    LET StartsMatch(i) ==
            /\ t[i] = ","
            /\ SkipWs(t, i + 1) <= Len(t)
            /\ t[SkipWs(t, i + 1)] = closer
        Matched(k) ==
            \/ StartsMatch(k)
            \/ /\ t[k] \in JsonWs
               /\ \E i \in 1..(k - 1) :
                      StartsMatch(i) /\ \A m \in (i + 1)..k : t[m] \in JsonWs
        marked == [k \in 1..Len(t) |-> IF Matched(k) THEN "dropped" ELSE t[k]]
    IN  SelectSeq(marked, LAMBDA c : c # "dropped")

\* str.replace("\n", " ")
ReplaceNewlines(t) == [i \in 1..Len(t) |-> IF t[i] = "\n" THEN " " ELSE t[i]]

\* the five cleaning statements of safe_json_loads
CleanJson(raw) ==
    LET c0 == Strip(StripChars(Strip(raw), {Backquote}))
        c1 == Strip(SubFences(c0, TRUE))
        c2 == SubTrailingComma(c1, "}")
        c3 == SubTrailingComma(c2, "]")
    IN  ReplaceNewlines(c3)

RECURSIVE LastIndex(_, _, _)
LastIndex(t, c, i) == IF i = 0 \/ t[i] = c THEN i ELSE LastIndex(t, c, i - 1)

\* re.search of: "[", anything (greedy, newlines too), "]"
SearchSpan(t) ==
    LET a == IndexFrom(t, "[", 1)
        b == LastIndex(t, "]", Len(t))
    IN  IF a <= Len(t) /\ b > a THEN [found |-> TRUE, text |-> SubSeq(t, a, b)]
        ELSE [found |-> FALSE, text |-> <<>>]

\* what a call of safe_json_loads does: the parses tried in order, and then
\* an exception, a parsed value, or the final return None
JsonOutcome(raised, none, val, attempts) ==
    [raised |-> raised, none |-> none, val |-> val, attempts |-> attempts]

\* safe_json_loads with the second parse outside any try
safe_json_loads_unguarded(raw) ==
    LET clean == CleanJson(raw)
        strict == JsonLoads(clean)
        m == SearchSpan(clean)
        span == JsonLoads(m.text)
    IN  IF strict.ok THEN JsonOutcome(FALSE, FALSE, strict.val, <<"strict">>)
        ELSE IF ~m.found THEN JsonOutcome(FALSE, TRUE, JsonNull, <<"strict">>)
        ELSE IF span.ok
             THEN JsonOutcome(FALSE, FALSE, span.val, <<"strict", "span">>)
        ELSE JsonOutcome(TRUE, FALSE, JsonNull, <<"strict", "span">>)

safe_json_loads(raw) ==
    LET clean == CleanJson(raw)
        strict == JsonLoads(clean)
        m == SearchSpan(clean)
        span == JsonLoads(m.text)
    IN  IF strict.ok THEN JsonOutcome(FALSE, FALSE, strict.val, <<"strict">>)
        ELSE IF ~m.found THEN JsonOutcome(FALSE, TRUE, JsonNull, <<"strict">>)
        ELSE IF span.ok
             THEN JsonOutcome(FALSE, FALSE, span.val, <<"strict", "span">>)
        ELSE JsonOutcome(FALSE, TRUE, JsonNull, <<"strict", "span">>)

\* the largest number of items of a list in a response text
MaxItems == 2

\* the items a response lists: a number, a record, a record with a trailing
\* comma, a string
ItemTexts ==
    {<<"1">>,
     <<"{", Quote, "a", Quote, ":", "1", "}">>,
     <<"{", Quote, "a", Quote, ":", "1", ",", " ", "}">>,
     <<Quote, "a", Quote>>}

\* the items separated by commas
RECURSIVE JoinItems(_)
JoinItems(items) ==
    IF items = <<>> THEN <<>>
    ELSE IF Len(items) = 1 THEN items[1]
    ELSE items[1] \o <<",">> \o JoinItems(Tail(items))

\* a list as the generator writes it: well formed, with a trailing comma
\* and a line break, or cut before its closing bracket
ListTexts(items) ==
    {<<"[">> \o JoinItems(items) \o <<"]">>,
     <<"[">> \o JoinItems(items) \o <<",", "\n", "]">>,
     <<"[">> \o JoinItems(items)}

JsonBodies ==
    UNION {ListTexts(items) :
              items \in UNION {[1..n -> ItemTexts] : n \in 0..MaxItems}}
        \cup {<<>>, <<"n", "u", "l", "l">>, <<"0">>,
              <<"{", Quote, "a", Quote, ":", "[", "1", "]", "}">>}

\* what stands before and after the body: nothing, whitespace, a fence,
\* commentary, another bracket
JsonPrefixes ==
    {<<>>, <<" ", "\n">>, FenceJson \o <<"\n">>, <<"x", " ">>,
     <<"x", "\n">> \o FenceJson \o <<"\n">>}
JsonSuffixes ==
    {<<>>, <<"\n">> \o Fence, <<" ", "y">>, <<"]">>, <<" ", "[", "2", "]">>}

RawTexts == {pre \o b \o post : pre \in JsonPrefixes, b \in JsonBodies,
                                post \in JsonSuffixes}

\* the raw text is given; the step applies safe_json_loads to it
SafeJsonLoads ==
    /\ last.op = "json_input"
    /\ last' = [last EXCEPT !.op = "safe_json_loads",
                   !.result = safe_json_loads(last.text)]
    /\ UNCHANGED <<prog, fs, cache, firstText, firstCsv, jobs, output>>

InitJson ==
    /\ prog = "v1"
    /\ fs = [p \in Paths |-> Missing]
    /\ cache = Empty
    /\ \E raw \in RawTexts : last = [NoCall EXCEPT !.op = "json_input", !.text = raw]
    /\ firstText = Empty
    /\ firstCsv = Empty
    /\ jobs = Empty
    /\ output = Empty

NextJson == SafeJsonLoads

SpecJson == InitJson /\ [][NextJson]_vars

----------------------------------------------------------------------------
(* Properties of safe_json_loads, checked under SpecJson *)

IsJsonCall == last.op = "safe_json_loads"

\* C11: safe_json_loads raises for no input string; the strict parse of the
\* cleaned text is the first parse tried; its value is returned when it
\* succeeds; otherwise the value of the first-bracket-to-last-bracket span
\* when there is one and it parses; otherwise None
C11_NeverRaisesStrictFirstElseNone ==
    IsJsonCall =>
        LET r == last.result
            clean == CleanJson(last.text)
            strict == JsonLoads(clean)
            m == SearchSpan(clean)
            spanOk == m.found /\ JsonLoads(m.text).ok
        IN  /\ ~r.raised
            /\ r.attempts[1] = "strict"
            /\ strict.ok => (~r.none /\ r.val = strict.val /\ r.attempts = <<"strict">>)
            /\ (~strict.ok /\ spanOk) => (~r.none /\ r.val = JsonLoads(m.text).val)
            /\ (~strict.ok /\ ~spanOk) => r.none

\* both parses were tried, both failed, None came back
C11_Witness ==
    /\ IsJsonCall
    /\ last.result.attempts = <<"strict", "span">>
    /\ last.result.none
    /\ ~last.result.raised

\* the span recovered a list the strict parse could not read
C11_WitnessRecovered ==
    /\ IsJsonCall
    /\ last.result.attempts = <<"strict", "span">>
    /\ ~last.result.none
    /\ last.result.val.kind = "list"
    /\ last.result.val.items # <<>>

\* the strict parse read a text that needed the trailing commas removed
C11_WitnessStrict ==
    /\ IsJsonCall
    /\ last.result.attempts = <<"strict">>
    /\ ~last.result.none
    /\ ~JsonLoads(Strip(last.text)).ok

----------------------------------------------------------------------------
(* extract_pdf_data (v1/index2.py, v1/index2_backup.py) *)

\* the chunk size of v1/index2.py, which the code sets to 150000
ChunkSize == 20

\* v1/index2.py cuts at 150000 characters, v1/index2_backup.py at 180000
MAX_CHARS(program) ==
    IF program = "backup" THEN ChunkSize + ChunkSize \div 5 ELSE ChunkSize

\* json.dumps(v, indent=2): items on lines of their own, two more spaces
\* of indentation per level
RECURSIVE JsonDumps(_, _)
JsonDumps(v, level) ==
    LET inner == <<"\n">> \o Rep(" ", 2 * (level + 1))
        outer == <<"\n">> \o Rep(" ", 2 * level)
        n == Len(v.items)
        Sep(i) == IF i < n THEN <<",">> ELSE <<>>
    IN  CASE v.kind = "list" ->
                 IF n = 0 THEN <<"[", "]">>
                 ELSE <<"[">>
                      \o Concat([i \in 1..n |->
                             inner \o JsonDumps(v.items[i], level + 1) \o Sep(i)])
                      \o outer \o <<"]">>
          [] v.kind = "dict" ->
                 IF n = 0 THEN <<"{", "}">>
                 ELSE <<"{">>
                      \o Concat([i \in 1..n |->
                             inner \o <<Quote>> \o v.items[i][1] \o <<Quote, ":", " ">>
                                 \o JsonDumps(v.items[i][2], level + 1) \o Sep(i)])
                      \o outer \o <<"}">>
          [] v.kind = "str" -> <<Quote>> \o v.s \o <<Quote>>
          [] v.kind = "num" -> v.s
          [] v.kind = "null" -> <<"n", "u", "l", "l">>
          [] v.kind = "true" -> <<"t", "r", "u", "e">>
          [] OTHER -> <<"f", "a", "l", "s", "e">>

JsonStr(chars) == JsonValue("str", <<>>, chars)

\* what iterating a parsed value yields (list.extend(v)): the items of a
\* list, the keys of a dict, the characters of a string; a number or a
\* boolean is not iterable (TypeError)
Iterable(v) == v.kind \in {"list", "dict", "str"}
Elements(v) ==
    CASE v.kind = "list" -> v.items
      [] v.kind = "dict" -> [i \in 1..Len(v.items) |-> JsonStr(v.items[i][1])]
      [] v.kind = "str" -> [i \in 1..Len(v.s) |-> JsonStr(<<v.s[i]>>)]
      [] OTHER -> <<>>

\* what one chunk adds to all_results, or the exception it ends the loop with
Contribution(raised, records) == [raised |-> raised, records |-> records]

\* if data: all_results.extend(data), with no test that data is a list
ExtendWith(data) ==
    IF ~Truthy(data) THEN Contribution(FALSE, <<>>)
    ELSE IF Iterable(data) THEN Contribution(FALSE, Elements(data))
    ELSE Contribution(TRUE, <<>>)

\* v1/index2.py: data = safe_json_loads(text_output); if data: extend(data)
ChunkData(text_output) == ExtendWith(safe_json_loads(text_output).val)

\* v1/index2_backup.py: the fences removed without re.MULTILINE, json.loads
\* in a try, extend for a list only, continue on an exception
ChunkDataBackup(text_output) ==
    LET clean == Strip(SubFences(Strip(text_output), FALSE))
        data == JsonLoads(clean)
    IN  IF data.ok /\ data.val.kind = "list"
        THEN Contribution(FALSE, data.val.items)
        ELSE Contribution(FALSE, <<>>)

\* a chunk loop that keeps its results newest first
LoopState_NewestFirst(all_results, calls, added, raised) ==
    [all_results |-> [k \in 1..Len(all_results) |->
                          all_results[Len(all_results) + 1 - k]],
     calls |-> calls, added |-> added, raised |-> raised]

\* the state of the chunk loop: the results so far, the chunks a generator
\* call was issued for, in the order issued, what each chunk added, and
\* whether an exception ended the loop
LoopState(all_results, calls, added, raised) ==
    [all_results |-> all_results, calls |-> calls, added |-> added,
     raised |-> raised]

ChunkDataOf(program, text_output) ==
    IF program = "backup" THEN ChunkDataBackup(text_output)
    ELSE ChunkData(text_output)

\* the loop state after chunk i gave d
Extended(st, i, d) ==
    IF d.raised
    THEN LoopState(st.all_results, Append(st.calls, i), st.added, TRUE)
    ELSE LoopState(st.all_results \o d.records, Append(st.calls, i),
                   Append(st.added, Len(d.records)), FALSE)

\* one turn of the loop: the call for chunk i, the parse, the extend;
\* gens[i] is what the generator does on the call for chunk i
LoopTurn(program, gens, i, st) ==
    IF gens[i].err
    THEN LoopState(st.all_results, Append(st.calls, i), st.added, TRUE)
    ELSE Extended(st, i, ChunkDataOf(program, gens[i].text))

\* for i, chunk in enumerate(chunks, 1): ...; an exception ends the loop
RECURSIVE ChunkLoop(_, _, _, _, _)
ChunkLoop(program, chunks, gens, i, st) ==
    IF i > Len(chunks) \/ st.raised THEN st
    ELSE ChunkLoop(program, chunks, gens, i + 1, LoopTurn(program, gens, i, st))

\* the answer of a job: the HTTP status, the error message or "", the data
\* returned, and what the chunk loop did
JobResult(status, error, data, loop) ==
    [status |-> status, error |-> error, data |-> data, calls |-> loop.calls,
     added |-> loop.added, raised |-> loop.raised]

NoLoop == LoopState(<<>>, <<>>, <<>>, FALSE)

JsonCacheFile(pdf_bytes) == <<Sha256(pdf_bytes), "json">>

\* get_pdf_text of v1/index2.py and v1/index2_backup.py, in a job: the text
\* from the cache, or extracted and written
JobText(dir, pdf_bytes, prim, ocr) ==
    IF TextCacheFile(pdf_bytes) \in DOMAIN dir
    THEN Extraction("returned", ReadText(dir[TextCacheFile(pdf_bytes)]),
                    <<>>, 0, 0, "cache")
    ELSE ExtractOnMissV1(prim, ocr)

\* one job from the upload to the response; noData is the message of the
\* program for an empty all_results
ExtractCall(program, pdf_bytes, prim, ocr, gens, noData) ==
    LET pdf_path == <<Sha256(pdf_bytes), "pdf">>
        cache_json_path == JsonCacheFile(pdf_bytes)
        uploaded == Put(cache, pdf_path, pdf_bytes)
        call == [NoCall EXCEPT !.op = "extract_pdf_data",
                    !.params = [pdf_bytes |-> pdf_bytes, gens |-> gens]]
    IN  IF cache_json_path \in DOMAIN cache
        THEN /\ cache' = uploaded
             /\ last' = [call EXCEPT !.hit = TRUE, !.outcome = "ok",
                    !.result = JobResult(200, "",
                        JsonLoads(ReadText(cache[cache_json_path])).val, NoLoop)]
        ELSE \E x \in {JobText(uploaded, pdf_bytes, prim, ocr)} :
             \E chunks \in {Chunks(x.text, MAX_CHARS(program))} :
             \E loop \in {ChunkLoop(program, chunks, gens, 1, NoLoop)} :
             \E extracted \in {WriteAll(uploaded, TextCacheFile(pdf_bytes), x.writes)} :
             \E job \in {[call EXCEPT !.pdf_text = x.text, !.chunks = chunks,
                             !.generatorCalls = Len(loop.calls)]} :
                 IF loop.raised
                 THEN /\ cache' = extracted
                      /\ last' = [job EXCEPT !.outcome = "error",
                             !.result = JobResult(500, "str(e)", JsonList(<<>>), loop)]
                 ELSE IF loop.all_results = <<>>
                 THEN /\ cache' = extracted
                      /\ last' = [job EXCEPT !.outcome = "error",
                             !.result = JobResult(500, noData, JsonList(<<>>), loop)]
                 ELSE /\ cache' = Put(extracted, cache_json_path,
                                      WriteText(JsonDumps(JsonList(loop.all_results), 0)))
                      /\ last' = [job EXCEPT !.outcome = "ok",
                             !.result = JobResult(200, "", JsonList(loop.all_results), loop)]

\* curriculum-mappin/v1/index2.py
extract_pdf_data(pdf_bytes, prim, ocr, gens) ==
    /\ prog = "v1"
    /\ ExtractCall("v1", pdf_bytes, prim, ocr, gens,
                   "No valid structured data returned")
    /\ UNCHANGED <<prog, fs, firstText, firstCsv, jobs, output>>

\* curriculum-mappin/v1/index2_backup.py
extract_pdf_data_backup(pdf_bytes, prim, ocr, gens) ==
    /\ prog = "backup"
    /\ ExtractCall("backup", pdf_bytes, prim, ocr, gens,
                   "Gemini returned no valid structured data")
    /\ UNCHANGED <<prog, fs, firstText, firstCsv, jobs, output>>

\* the documents uploaded: no page, one page, two pages
JobDocs == {<<>>, <<PageShort>>, <<PageShort, PageEmpty>>}

\* a record with one field, whose value tells the chunk it came from
RecordText(i) == <<"{", Quote, "a", Quote, ":">> \o Decimal(i) \o <<"}">>

\* what the generator can do on the call for chunk i: raise (an error or a
\* timeout), or answer with prose, an empty list, a list of one record, the
\* same in a fence, a bare number, a bare object
ResponseKinds ==
    {"error", "prose", "empty_list", "records", "fenced_records", "number",
     "object"}

Response(kind, i) ==
    [err |-> kind = "error",
     text |-> CASE kind = "prose" -> <<"x">>
                [] kind = "empty_list" -> <<"[", "]">>
                [] kind = "records" -> <<"[">> \o RecordText(i) \o <<"]">>
                [] kind = "fenced_records" ->
                       FenceJson \o <<"\n", "[">> \o RecordText(i)
                           \o <<"]", "\n">> \o Fence
                [] kind = "number" -> Decimal(i)
                [] kind = "object" -> RecordText(i)
                [] OTHER -> <<>>]

\* the OCR of a job: an error, or every page image read as empty
JobOcrOutcomes(pdf_bytes) ==
    {[err |-> TRUE, pages |-> <<>>],
     [err |-> FALSE, pages |-> [i \in 1..Len(pdf_bytes) |-> <<>>]]}

InitExtract ==
    /\ prog \in {"v1", "backup"}
    /\ \E d \in JobDocs : fs = [p \in Paths |-> IF p = "a.pdf" THEN File(d) ELSE Missing]
    /\ cache = Empty
    /\ last = NoCall
    /\ firstText = Empty
    /\ firstCsv = Empty
    /\ jobs = Empty
    /\ output = Empty

\* the number of generator calls a job on these inputs can come to
ChunkCount(program, pdf_bytes, prim, ocr) ==
    IF JsonCacheFile(pdf_bytes) \in DOMAIN cache THEN 0
    ELSE Len(Chunks(JobText(cache, pdf_bytes, prim, ocr).text, MAX_CHARS(program)))

NextExtract ==
    \E pdf_path \in {p \in Paths : fs[p].exists} :
        LET pdf_bytes == fs[pdf_path].bytes
            extracts == JsonCacheFile(pdf_bytes) \notin DOMAIN cache
                            /\ TextCacheFile(pdf_bytes) \notin DOMAIN cache
        IN  \E prim \in (IF extracts THEN PrimaryOutcomes(pdf_bytes) ELSE {NotCalled}) :
            \E ocr \in (IF extracts /\ prim.err THEN JobOcrOutcomes(pdf_bytes)
                        ELSE {NotCalled}) :
            \E kinds \in [1..ChunkCount(prog, pdf_bytes, prim, ocr) -> ResponseKinds] :
            \E gens \in {[i \in DOMAIN kinds |-> Response(kinds[i], i)]} :
                \/ extract_pdf_data(pdf_bytes, prim, ocr, gens)
                \/ extract_pdf_data_backup(pdf_bytes, prim, ocr, gens)

SpecExtract == InitExtract /\ [][NextExtract]_vars

----------------------------------------------------------------------------
(* Properties of extract_pdf_data, checked under SpecExtract *)

\* a job that found no cached artifact and went through the chunk loop
IsExtractJob == last.op = "extract_pdf_data" /\ ~last.hit

\* every generator call of the job returned a response
NoCallRaised == \A i \in DOMAIN last.params.gens : ~last.params.gens[i].err

\* the response for chunk i does not parse: no structured data comes of it
DoesNotParse(i) ==
    LET text == last.params.gens[i].text
    IN  IF prog = "backup"
        THEN ~JsonLoads(Strip(SubFences(Strip(text), FALSE))).ok
        ELSE safe_json_loads(text).none

\* the records of the response for chunk i: the items of the array it
\* parses to, none when it does not parse to an array
RecordsOf(i) ==
    LET text == last.params.gens[i].text
        v == IF prog = "backup"
             THEN JsonLoads(Strip(SubFences(Strip(text), FALSE))).val
             ELSE safe_json_loads(text).val
    IN  IF ~DoesNotParse(i) /\ v.kind = "list" THEN v.items ELSE <<>>

\* chunk i added records to all_results
Contributed(i) == i \in 1..Len(last.result.added) /\ last.result.added[i] > 0

MultiChunk == Len(last.chunks) >= 2

\* in a multi-chunk job whose calls all returned: an unparsable response
\* adds nothing and the next chunk is still called
UnparsableChunkIsSkipped ==
    (IsExtractJob /\ MultiChunk /\ NoCallRaised) =>
        \A i \in 1..Len(last.chunks) :
            (i \in 1..Len(last.result.calls) /\ DoesNotParse(i)) =>
                /\ ~Contributed(i)
                /\ i < Len(last.chunks) => last.result.calls[i + 1] = i + 1

\* in a multi-chunk job whose calls all returned: an error exactly when no
\* chunk added a record
ErrorIffNoChunkContributed ==
    (IsExtractJob /\ MultiChunk /\ NoCallRaised) =>
        (last.result.status = 500 <=> \A i \in 1..Len(last.chunks) : ~Contributed(i))

\* in a multi-chunk job whose calls all returned: a success returns the
\* records of the chunks that parsed
SuccessReturnsParsedRecords ==
    (IsExtractJob /\ MultiChunk /\ NoCallRaised /\ last.result.status = 200) =>
        last.result.data.items
            = Concat([i \in 1..Len(last.chunks) |-> RecordsOf(i)])

\* C12: in a multi-chunk job, a chunk whose response does not parse adds no
\* record and the later chunks are still processed; the job ends with an
\* error if and only if no chunk added a record, and otherwise succeeds
\* with the records of the chunks that parsed
C12_UnparsableChunkSkippedErrorIffNoRecords ==
    /\ UnparsableChunkIsSkipped
    /\ ErrorIffNoChunkContributed
    /\ SuccessReturnsParsedRecords

\* v1/index2_backup.py keeps to all three (it extends for a list only)
BackupSkipsUnparsableErrorIffNoRecords ==
    prog = "backup" => C12_UnparsableChunkSkippedErrorIffNoRecords

\* v1/index2.py skips an unparsable chunk and goes on
V1UnparsableChunkIsSkipped == prog = "v1" => UnparsableChunkIsSkipped

\* the generator calls of the job are for chunks 1, 2, ... in this order,
\* one call for a chunk
CallsInChunkOrder ==
    /\ Len(last.result.calls) <= Len(last.chunks)
    /\ \A k \in 1..Len(last.result.calls) : last.result.calls[k] = k

\* a generator call that raises (an error, a timeout) is the last call of
\* the job, and the job answers with an error
FailedCallEndsJob ==
    \A k \in 1..Len(last.result.calls) :
        last.params.gens[k].err =>
            /\ k = Len(last.result.calls)
            /\ last.result.status = 500

\* what the response for chunk i gives to extend
ObtainedFrom(i) == ChunkDataOf(prog, last.params.gens[i].text).records

\* the artifact in the cache, parsed
Artifact ==
    JsonLoads(ReadText(cache[JsonCacheFile(last.params.pdf_bytes)])).val

\* a success has called for every chunk, and the artifact written (and the
\* data returned) is what the chunks gave, in chunk order
ArtifactIsConcatenation ==
    last.result.status = 200 =>
        LET all == Concat([i \in 1..Len(last.chunks) |-> ObtainedFrom(i)])
        IN  /\ Len(last.result.calls) = Len(last.chunks)
            /\ JsonCacheFile(last.params.pdf_bytes) \in DOMAIN cache
            /\ Artifact = JsonList(all)
            /\ last.result.data = JsonList(all)

C17_WitnessFailedCall ==
    /\ IsExtractJob
    /\ prog = "v1"
    /\ Len(last.chunks) = 2
    /\ last.params.gens[1].err
    /\ last.result.calls = <<1>>
    /\ last.result.status = 500

\* the response for chunk i parses, to a value that is not an array
ParsesToNonArray(i) ==
    ~DoesNotParse(i) /\ safe_json_loads(last.params.gens[i].text).val.kind # "list"

\* every element returned and cached is a record
ElementsAreRecords ==
    /\ \A n \in 1..Len(last.result.data.items) :
           last.result.data.items[n].kind = "dict"
    /\ \A n \in 1..Len(Artifact.items) : Artifact.items[n].kind = "dict"

\* a response that parses to a value that is not an array adds nothing
NonArrayAddsNothing ==
    \A i \in 1..Len(last.result.added) :
        ParsesToNonArray(i) => last.result.added[i] = 0

\* C24: every element of the artifact that extract_pdf_data of v1/index2.py
\* returns and caches is a record taken from a JSON array of some chunk's
\* response; a response that parses to a value that is not an array (an
\* object, a string, a number) contributes no element.
C24_ArtifactElementsAreRecords ==
    (IsExtractJob /\ prog = "v1" /\ last.result.status = 200) =>
        /\ ElementsAreRecords
        /\ NonArrayAddsNothing

\* v1/index2_backup.py extends for a list only and keeps to both
BackupArtifactElementsAreRecords ==
    (IsExtractJob /\ prog = "backup" /\ last.result.status = 200) =>
        /\ ElementsAreRecords
        /\ \A i \in 1..Len(last.result.added) :
               RecordsOf(i) = <<>> => last.result.added[i] = 0

----------------------------------------------------------------------------
(* The reconciliation jobs: map_extracted_data (v1/index2.py,              *)
(* v1/index2_backup.py), map_extracted (v3/app.py), process_mapping        *)
(* (v2/index_v2.py)                                                        *)

UpperLetters ==
    <<"A","B","C","D","E","F","G","H","I","J","K","L","M",
      "N","O","P","Q","R","S","T","U","V","W","X","Y","Z">>
LowerLetters ==
    <<"a","b","c","d","e","f","g","h","i","j","k","l","m",
      "n","o","p","q","r","s","t","u","v","w","x","y","z">>

\* str.lower()
LowerChar(c) ==
    IF \E n \in 1..26 : UpperLetters[n] = c
    THEN LowerLetters[CHOOSE n \in 1..26 : UpperLetters[n] = c]
    ELSE c
Lower(t) == [i \in 1..Len(t) |-> LowerChar(t[i])]

\* p in t, for strings
Contains(t, p) == \E i \in 1..(Len(t) + 1) : MatchAt(t, i, p)

\* v1/index2_backup.py: "uuid" in c.lower() or "id" == c.lower()
IsUuidColBackup(c) ==
    Contains(Lower(c), <<"u", "u", "i", "d">>) \/ Lower(c) = <<"i", "d">>

\* v3/app.py: "uuid" in c.lower() or "id" in c.lower()
IsUuidCol(c) ==
    Contains(Lower(c), <<"u", "u", "i", "d">>) \/ Contains(Lower(c), <<"i", "d">>)

\* the test that accepts every column
IsUuidCol_Any(program, c) == TRUE

IsUuidColOf(program, c) ==
    IF program = "backup" THEN IsUuidColBackup(c) ELSE IsUuidCol(c)

\* uuid_col = next((c for c in ref_df.columns if ...), None); not uuid_col
NoUuidCol(program, columns) ==
    \A n \in 1..Len(columns) : ~IsUuidColOf(program, columns[n])

KeySummary == <<"s", "u", "m", "m", "a", "r", "y">>
KeyOverview == <<"o", "v", "e", "r", "v", "i", "e", "w">>
KeyPdfSummary == <<"p", "d", "f", "_">> \o KeySummary

\* key in d: a key of a dict, a substring of a string, an item of a list;
\* d of another type raises TypeError, told by Iterable(d)
In(key, d) ==
    CASE d.kind = "dict" -> \E n \in 1..Len(d.items) : d.items[n][1] = key
      [] d.kind = "str" -> Contains(d.s, key)
      [] d.kind = "list" -> \E n \in 1..Len(d.items) : d.items[n] = JsonStr(key)
      [] OTHER -> FALSE

\* d[new] = d.pop(old) on a dict kept as pairs in insertion order
PopInto(d, old, new) ==
    LET n == CHOOSE n \in 1..Len(d.items) : d.items[n][1] = old
        rest == SelectSeq(d.items, LAMBDA kv : kv[1] # old)
    IN  JsonDict(DictPut(rest, new, d.items[n][2]))

\* one turn of the loop over mapped_data (v1/index2.py:195-199): d after
\* it, or the exception of a d that has no pop of that kind or no "in"
Renamed(raised, d) == [raised |-> raised, d |-> d]

RenameSummary(d) ==
    IF ~Iterable(d) THEN Renamed(TRUE, d)
    ELSE IF In(KeySummary, d) /\ ~In(KeyPdfSummary, d)
         THEN IF d.kind = "dict"
              THEN Renamed(FALSE, PopInto(d, KeySummary, KeyPdfSummary))
              ELSE Renamed(TRUE, d)
    ELSE IF In(KeyOverview, d) /\ ~In(KeyPdfSummary, d)
         THEN IF d.kind = "dict"
              THEN Renamed(FALSE, PopInto(d, KeyOverview, KeyPdfSummary))
              ELSE Renamed(TRUE, d)
    ELSE Renamed(FALSE, d)

\* for d in mapped_data: ...; the value mapped_data names afterwards (the
\* dicts of a list are changed in place), or the exception
RenameAll(mapped_data) ==
    LET ds == Elements(mapped_data)
        rs == [n \in 1..Len(ds) |-> RenameSummary(ds[n])]
    IN  IF ~Iterable(mapped_data) \/ \E n \in 1..Len(rs) : rs[n].raised
        THEN Renamed(TRUE, mapped_data)
        ELSE IF mapped_data.kind = "list"
             THEN Renamed(FALSE, JsonList([n \in 1..Len(rs) |-> rs[n].d]))
             ELSE Renamed(FALSE, mapped_data)

\* the answer of a reconciliation job: the HTTP status, the error message
\* or "", whether raw_output is in the answer and its text, the data, and
\* the number of generator calls made
MapResult(status, error, hasRaw, raw_output, data, calls) ==
    [status |-> status, error |-> error, hasRaw |-> hasRaw,
     raw_output |-> raw_output, data |-> data, calls |-> calls, prompted |-> 0]

\* the same answer, n extracted records having been put into the prompt
Prompted(res, n) == [res EXCEPT !.prompted = n]

MapError(status, error, calls) == MapResult(status, error, FALSE, <<>>, JsonNull, calls)

\* the uploaded reference file is saved as ref_{uuid4}.csv; uuid4 is fresh
RefFile(dir) == <<"ref", Cardinality(DOMAIN dir), "csv">>

\* the number of extracted records v1/index2.py puts into its prompt
PromptRecords == 60

\* x[:n], which a list or a string has and a dict or a number has not
Sliceable(v) == v.kind \in {"list", "str"}

\* what a job leaves: the cache directory and its answer
Done(dir, res) == [dir |-> dir, res |-> res]

\* re.sub(r"^(fence)json|(fence)$", "", text_output.strip()).strip(), as
\* v1/index2_backup.py, v2 and v3 clean a response (no re.MULTILINE)
CleanResponse(text_output) == Strip(SubFences(Strip(text_output), FALSE))

\* v1/index2.py map_extracted_data: req is the request, gen what the
\* generator does if called
MapExtractedDataV1(req, gen) ==
    LET saved == Put(cache, RefFile(cache), req.columns)
        extracted_data == JsonLoads(req.data)
        mapped_data == safe_json_loads(gen.text).val
        renamed == RenameAll(mapped_data)
        n == Len(Slice(Elements(extracted_data.val), 0, PromptRecords))
    IN  IF ~req.hasCsv \/ ~req.hasData
        THEN Done(cache, MapError(400, "Missing CSV or extracted data", 0))
        ELSE IF ~extracted_data.ok \/ ~Sliceable(extracted_data.val)
        THEN Done(saved, MapError(500, "str(e)", 0))
        ELSE IF gen.err THEN Done(saved, Prompted(MapError(500, "str(e)", 1), n))
        ELSE IF ~Truthy(mapped_data)
        THEN Done(saved,
                  Prompted(MapResult(500, "AI mapping failed, invalid JSON returned",
                                     TRUE, gen.text, JsonNull, 1), n))
        ELSE IF renamed.raised
        THEN Done(saved, Prompted(MapError(500, "str(e)", 1), n))
        ELSE Done(saved, Prompted(MapResult(200, "", FALSE, <<>>, renamed.d, 1), n))

\* v1/index2_backup.py map_extracted_data
MapExtractedDataBackup(req, gen) ==
    LET saved == Put(cache, RefFile(cache), req.columns)
        extracted_data == JsonLoads(req.data)
        mapped_data == JsonLoads(CleanResponse(gen.text))
    IN  IF ~req.hasCsv \/ ~req.hasData
        THEN Done(cache, MapError(400, "Missing CSV or extracted data", 0))
        ELSE IF NoUuidCol("backup", req.columns)
        THEN Done(saved, MapError(400, "CSV must contain a UUID or ID column", 0))
        ELSE IF ~extracted_data.ok THEN Done(saved, MapError(500, "str(e)", 0))
        ELSE IF gen.err THEN Done(saved, MapError(500, "str(e)", 1))
        ELSE IF ~mapped_data.ok
        THEN Done(saved, MapResult(500, "AI mapping failed, invalid JSON returned",
                                   TRUE, gen.text, JsonNull, 1))
        ELSE Done(saved, MapResult(200, "", FALSE, <<>>, mapped_data.val, 1))

\* v3/app.py map_extracted: the extracted data is the cached artifact of
\* the hash in the form
MapExtracted(req, gen) ==
    LET cache_json_path == <<req.hash, "json">>
        saved == Put(cache, RefFile(cache), req.columns)
        mapped_data == JsonLoads(CleanResponse(gen.text))
    IN  IF ~req.hasCsv \/ ~req.hasData
        THEN Done(cache, MapError(400, "Missing file or hash", 0))
        ELSE IF cache_json_path \notin DOMAIN cache
        THEN Done(cache, MapError(404, "Extracted data not found", 0))
        ELSE IF ~JsonLoads(ReadText(cache[cache_json_path])).ok
        THEN Done(cache, MapError(500, "str(e)", 0))
        ELSE IF NoUuidCol("v3", req.columns)
        THEN Done(saved, MapError(400, "CSV must contain a UUID column", 0))
        ELSE IF gen.err THEN Done(saved, MapError(500, "str(e)", 1))
        ELSE IF ~mapped_data.ok THEN Done(saved, MapError(500, "str(e)", 1))
        ELSE Done(saved, MapResult(200, "", FALSE, <<>>, mapped_data.val, 1))

KeyMatchedUuid == <<"m", "a", "t", "c", "h", "e", "d", "_", "u", "u", "i", "d">>
KeyUuid == <<"u", "u", "i", "d">>

\* matched.get("matched_uuid", None) in a try: the value under the key,
\* None when matched is a dict without it, when it is no dict
\* (AttributeError) and when the response does not parse
MatchedUuid(res_text) ==
    LET matched == JsonLoads(CleanResponse(res_text))
    IN  IF matched.ok /\ matched.val.kind = "dict" /\ In(KeyMatchedUuid, matched.val)
        THEN LET n == CHOOSE n \in 1..Len(matched.val.items) :
                          matched.val.items[n][1] = KeyMatchedUuid
             IN  matched.val.items[n][2]
        ELSE JsonNull

\* the loop of process_mapping: one generator call for every item, in
\* order; item["uuid"] = ... raises for an item that is no dict
RECURSIVE MappingLoop(_, _, _, _)
MappingLoop(pdf_data, gens, i, st) ==
    IF i > Len(pdf_data) THEN st
    ELSE IF gens[i].err \/ pdf_data[i].kind # "dict"
         THEN LoopState(st.all_results, Append(st.calls, i), st.added, TRUE)
    ELSE LET item == JsonDict(DictPut(pdf_data[i].items, KeyUuid,
                                      MatchedUuid(gens[i].text)))
         IN  MappingLoop(pdf_data, gens, i + 1,
                         LoopState(Append(st.all_results, item),
                                   Append(st.calls, i), Append(st.added, 1), FALSE))

\* v2/index_v2.py process_mapping: gens[i] is what the generator does on
\* the call for item i
ProcessMapping(req, gens) ==
    LET pdf_data == JsonLoads(req.data)
        loop == MappingLoop(Elements(pdf_data.val), gens, 1, NoLoop)
    IN  IF ~req.hasCsv \/ ~req.hasData
        THEN Done(cache, MapError(400, "Missing data or CSV file", 0))
        ELSE IF ~pdf_data.ok \/ ~Iterable(pdf_data.val)
        THEN Done(cache, MapError(500, "str(e)", 0))
        ELSE IF loop.raised
        THEN Done(cache, MapError(500, "str(e)", Len(loop.calls)))
        ELSE Done(cache, MapResult(200, "", FALSE, <<>>,
                                   JsonList(loop.all_results), Len(loop.calls)))

\* the largest number of extracted records in a request
MaxRecords == 2

ColName == <<"n", "a", "m", "e">>
ColTitle == <<"t", "i", "t", "l", "e">>
ColId == <<"i", "d">>
ColIdUpper == <<"I", "D">>
ColVideo == <<"v", "i", "d", "e", "o">>
ColUuid == <<"U", "U", "I", "D">>
ColTopicUuid == <<"t", "_", "u", "u", "i", "d">>

\* the columns of the reference datasets uploaded
RefColumns ==
    {<<ColName>>, <<ColName, ColTitle>>, <<ColId>>, <<ColTitle, ColId>>,
     <<ColIdUpper, ColName>>, <<ColVideo>>, <<ColUuid, ColName>>,
     <<ColName, ColTopicUuid>>}

\* the JSON text of a list of the items texts
ListText(texts) == <<"[">> \o JoinItems(texts) \o <<"]">>

\* the extracted data of n records, as the client or the cache holds it
ExtractedText(n) == ListText([k \in 1..n |-> RecordText(k)])

\* the document whose artifact v3/app.py looks up
MapDoc == <<PageShort>>

\* a request: the reference file and its columns, the extracted data (the
\* form field data or pdf_data; for v3 the field hash)
Request(hasCsv, columns, hasData, data) ==
    [hasCsv |-> hasCsv, columns |-> columns, hasData |-> hasData, data |-> data,
     hash |-> Sha256(MapDoc)]

Requests ==
    {Request(TRUE, columns, TRUE, data) :
         columns \in RefColumns,
         data \in {ExtractedText(n) : n \in 0..MaxRecords} \cup {<<"x">>}}
        \cup {Request(FALSE, <<>>, TRUE, ExtractedText(1)),
              Request(TRUE, <<ColId>>, FALSE, <<>>)}

\* the matched record for extracted record k: its field and a uuid
MatchText(k) ==
    <<"{", Quote, "a", Quote, ":">> \o Decimal(k)
        \o <<",", Quote, "u", Quote, ":", "1", "}">>

\* a document-level summary record under the key given
SummaryText(key) ==
    <<"{", Quote>> \o key \o <<Quote, ":", Quote, "s", Quote, "}">>

SummaryKeys == {KeySummary, KeyOverview, KeyPdfSummary}

\* the orders in which a response lists its matches: the first m records
\* in order, for m up to one more than any request has, and the first two
\* swapped
MatchOrders ==
    {[k \in 1..m |-> k] : m \in 0..(MaxRecords + 1)} \cup {<<2, 1>>}

MatchList(order) == [n \in 1..Len(order) |-> MatchText(order[n])]

\* the response texts of the matching call: a list of matches, the same
\* in a fence, the same with a summary record at the end, prose, null, a
\* number, a string
MatchingTexts ==
    {ListText(MatchList(order)) : order \in MatchOrders}
        \cup {FenceJson \o <<"\n">> \o ListText(MatchList(order)) \o <<"\n">> \o Fence :
                  order \in MatchOrders}
        \cup {ListText(Append(MatchList(order), SummaryText(key))) :
                  order \in MatchOrders, key \in SummaryKeys}
        \cup {<<"x">>, <<"n", "u", "l", "l">>, <<"5">>, <<Quote, "a", "b", Quote>>}

GeneratorRaises == [err |-> TRUE, text |-> <<>>]

MatchingOutcomes ==
    {GeneratorRaises} \cup {[err |-> FALSE, text |-> t] : t \in MatchingTexts}

\* the response texts of the call for one item in process_mapping
ItemResponseTexts ==
    {<<"{", Quote>> \o KeyMatchedUuid \o <<Quote, ":", Quote, "u", Quote, "}">>,
     <<"{", Quote>> \o KeyMatchedUuid \o <<Quote, ":", "n", "u", "l", "l", "}">>,
     <<"{", "}">>, <<"[", "1", "]">>, <<"x">>}

ItemOutcomes ==
    {GeneratorRaises} \cup {[err |-> FALSE, text |-> t] : t \in ItemResponseTexts}

\* the request and the generator's behaviour are given; the step runs the
\* job and leaves its answer
MapCall(done) ==
    /\ last.op = "map_input"
    /\ cache' = done.dir
    /\ last' = [last EXCEPT !.op = "map",
                   !.outcome = IF done.res.status = 200 THEN "ok" ELSE "error",
                   !.generatorCalls = done.res.calls,
                   !.result = done.res]
    /\ UNCHANGED <<prog, fs, firstText, firstCsv, jobs, output>>

\* curriculum-mappin/v1/index2.py
map_extracted_data ==
    prog = "v1" /\ MapCall(MapExtractedDataV1(last.params.req, last.params.gen))

\* curriculum-mappin/v1/index2_backup.py
map_extracted_data_backup ==
    prog = "backup" /\ MapCall(MapExtractedDataBackup(last.params.req, last.params.gen))

\* curriculum-mappin/v3/app.py
map_extracted ==
    prog = "v3" /\ MapCall(MapExtracted(last.params.req, last.params.gen))

\* curriculum-mappin/v2/index_v2.py
process_mapping ==
    prog = "v2" /\ MapCall(ProcessMapping(last.params.req, last.params.gens))

\* the number of items a request's data holds, 0 when it does not parse
ItemCount(req) == Len(Elements(JsonLoads(req.data).val))

\* the cache v3/app.py starts from: the artifact of the document, as
\* extract_pdf_data wrote it, when the request's data stands for one
ArtifactCache(req) ==
    IF JsonLoads(req.data).ok
    THEN Put(Empty, <<req.hash, "json">>,
             WriteText(JsonDumps(JsonLoads(req.data).val, 0)))
    ELSE Empty

InitMap ==
    /\ prog \in {"v1", "backup", "v3", "v2"}
    /\ fs = [p \in Paths |-> Missing]
    /\ \E req \in Requests :
           /\ cache = IF prog = "v3" THEN ArtifactCache(req) ELSE Empty
           /\ IF prog = "v2"
              THEN \E gens \in [1..ItemCount(req) -> ItemOutcomes] :
                       last = [NoCall EXCEPT !.op = "map_input",
                                  !.params = [req |-> req, gen |-> GeneratorRaises,
                                              gens |-> gens]]
              ELSE \E gen \in MatchingOutcomes :
                       last = [NoCall EXCEPT !.op = "map_input",
                                  !.params = [req |-> req, gen |-> gen, gens |-> <<>>]]
    /\ firstText = Empty
    /\ firstCsv = Empty
    /\ jobs = Empty
    /\ output = Empty

NextMap ==
    \/ map_extracted_data
    \/ map_extracted_data_backup
    \/ map_extracted
    \/ process_mapping

SpecMap == InitMap /\ [][NextMap]_vars

----------------------------------------------------------------------------
(* Properties of the reconciliation jobs, checked under SpecMap *)

IsMapJob == last.op = "map"
MapRequest == last.params.req

\* the request is complete and its extracted data is there and parses
WellFormedRequest ==
    /\ MapRequest.hasCsv /\ MapRequest.hasData
    /\ JsonLoads(MapRequest.data).ok

\* no column name of the reference dataset contains "uuid" or "id"
NoIdentifierInAnyName ==
    \A n \in 1..Len(MapRequest.columns) :
        /\ ~Contains(Lower(MapRequest.columns[n]), <<"u", "u", "i", "d">>)
        /\ ~Contains(Lower(MapRequest.columns[n]), <<"i", "d">>)

\* a column of the reference dataset is named "id"
HasColumnNamedId ==
    \E n \in 1..Len(MapRequest.columns) : MapRequest.columns[n] = <<"i", "d">>

ConfigurationError ==
    /\ last.result.status = 400
    /\ last.result.error \in {"CSV must contain a UUID or ID column",
                              "CSV must contain a UUID column"}

C13_WitnessAccepted ==
    /\ IsMapJob /\ prog \in {"backup", "v3"} /\ WellFormedRequest
    /\ HasColumnNamedId
    /\ last.generatorCalls = 1
    /\ last.result.status = 200

\* the job made its generator call and the call returned a response
MatchingResponded ==
    IsMapJob /\ last.generatorCalls = 1 /\ ~last.params.gen.err

\* the response as the program parses it
ParsedResponse ==
    IF prog = "v1"
    THEN LET r == safe_json_loads(last.params.gen.text)
         IN  [ok |-> ~r.none, val |-> r.val]
    ELSE LET r == JsonLoads(CleanResponse(last.params.gen.text))
         IN  [ok |-> r.ok, val |-> r.val]

\* the response parses into structured records: a list of field mappings
ParsesIntoRecords ==
    /\ ParsedResponse.ok
    /\ ParsedResponse.val.kind = "list"
    /\ \A n \in 1..Len(ParsedResponse.val.items) :
           ParsedResponse.val.items[n].kind = "dict"

\* the answer is the matching failure: an error that carries the raw
\* response text, and no data
MatchingFailure ==
    /\ last.result.status = 500
    /\ last.result.error = "AI mapping failed, invalid JSON returned"
    /\ last.result.hasRaw
    /\ last.result.raw_output = last.params.gen.text
    /\ last.result.data = JsonNull

\* C14: in map_extracted_data (v1/index2.py, v1/index2_backup.py), whenever
\* the matching response does not parse into structured records, the job
\* answers with the matching failure, which carries the raw response text,
\* and returns no matched record
C14_UnstructuredResponseFailsWholeBatch ==
    (MatchingResponded /\ prog \in {"v1", "backup"} /\ ~ParsesIntoRecords) =>
        MatchingFailure

\* what both programs keep to: a response that does not parse at all is
\* answered with the matching failure
UnparsableResponseFailsWholeBatch ==
    (MatchingResponded /\ prog \in {"v1", "backup"} /\ ~ParsedResponse.ok) =>
        MatchingFailure

\* the extracted records of the request
InputRecords == Elements(JsonLoads(MapRequest.data).val)

\* out is a matched record for the extracted record rec: a field mapping
\* that has every field of rec with its value
MatchesInput(out, rec) ==
    /\ out.kind = "dict"
    /\ \A n \in 1..Len(rec.items) :
           \E m \in 1..Len(out.items) : out.items[m] = rec.items[n]

\* the data of the answer is one matched record per extracted record, in
\* the order of the input
OnePerInputInOrder ==
    /\ last.result.data.kind = "list"
    /\ Len(last.result.data.items) = Len(InputRecords)
    /\ \A k \in 1..Len(InputRecords) :
           MatchesInput(last.result.data.items[k], InputRecords[k])

\* C15: a successful reconciliation returns exactly one matched record per
\* extracted record of the input, in input order, in map_extracted_data of
\* v1/index2.py (one call) and in process_mapping of v2/index_v2.py (one
\* call per record), whatever the generator answers
C15_SuccessReturnsOnePerInputInOrder ==
    (IsMapJob /\ prog \in {"v1", "v2"} /\ last.result.status = 200) =>
        OnePerInputInOrder

\* process_mapping keeps to it: it appends the item itself, once per item
CallPerRecordReturnsOnePerInputInOrder ==
    (IsMapJob /\ prog = "v2" /\ last.result.status = 200) =>
        (OnePerInputInOrder /\ last.generatorCalls = Len(InputRecords))

\* a document-level summary record: a dict with a key "summary",
\* "overview" or "pdf_summary"
IsSummaryRecord(d) ==
    d.kind = "dict" /\ \E key \in SummaryKeys : In(key, d)

\* the value a summary record holds under its key
SummaryOf(d) ==
    LET n == CHOOSE n \in 1..Len(d.items) : d.items[n][1] \in SummaryKeys
    IN  d.items[n][2]

\* the matching response parsed into records, the last one a summary
EndsWithSummary ==
    /\ MatchingResponded
    /\ ParsesIntoRecords
    /\ ParsedResponse.val.items # <<>>
    /\ IsSummaryRecord(ParsedResponse.val.items[Len(ParsedResponse.val.items)])

ResponseSummary ==
    SummaryOf(ParsedResponse.val.items[Len(ParsedResponse.val.items)])

\* the records of the answer, none for an answer whose data is not a list
AnswerRecords ==
    IF last.result.data.kind = "list" THEN last.result.data.items ELSE <<>>

\* the job answers with a success
SummaryTolerated == last.result.status = 200

\* the match records of the answer do not include the summary record
SummarySeparated ==
    \A n \in 1..Len(AnswerRecords) : ~IsSummaryRecord(AnswerRecords[n])

\* the answer holds the summary under "pdf_summary", and nothing under
\* "summary" or "overview"
SummaryNormalized ==
    /\ \E n \in 1..Len(AnswerRecords) :
           /\ AnswerRecords[n].kind = "dict"
           /\ \E m \in 1..Len(AnswerRecords[n].items) :
                  AnswerRecords[n].items[m] = <<KeyPdfSummary, ResponseSummary>>
    /\ \A n \in 1..Len(AnswerRecords) :
           AnswerRecords[n].kind = "dict" =>
               ~In(KeySummary, AnswerRecords[n]) /\ ~In(KeyOverview, AnswerRecords[n])

\* C18: when the last record of the matching response is a document-level
\* summary keyed "summary", "overview" or "pdf_summary", map_extracted_data
\* (v1/index2.py, v3/app.py) succeeds, the match records of the result do
\* not include the summary record, and the summary is under "pdf_summary".
C18_TrailingSummarySeparatedAndNormalized ==
    (EndsWithSummary /\ prog \in {"v1", "v3"}) =>
        /\ SummaryTolerated
        /\ SummarySeparated
        /\ SummaryNormalized

\* both programs tolerate the trailing summary
TrailingSummaryTolerated ==
    (EndsWithSummary /\ prog \in {"v1", "v3"}) => SummaryTolerated

\* v1/index2.py renames the key of the summary to "pdf_summary"
V1NormalizesSummaryKey ==
    (EndsWithSummary /\ prog = "v1") => SummaryNormalized

----------------------------------------------------------------------------
(* Concurrent jobs on one cache key.  The server handles requests on       *)
(* threads, and a job is a sequence of steps on the cache directory:       *)
(*   cache_file.exists(); then cache_file.read_text() on a hit; on a miss  *)
(*   the computation (extraction, generator call) and then                 *)
(*   cache_file.write_text(value), which opens the file for writing (the   *)
(*   file is created or truncated) and then writes the value.              *)
(* All jobs of a behaviour are of one kind and use the same key:           *)
(*   "text"      get_pdf_text of index.py on one document,                 *)
(*   "csv"       generate_csv_from_text of index.py on one (text,          *)
(*               instruction) pair,                                        *)
(*   "artifact"  extract_pdf_data of v1/index2.py on one upload.           *)
(* last describes the most recent completed write_text: its value, whether *)
(* a write_text had completed before it, and the value of the first one.   *)

JobIds == {"job1", "job2"}

RaceDoc == <<PageShort>>
RacePdfText == <<"a">>
RaceUserPrompt == <<"c">>

\* the cache file the jobs of a kind share
RaceKey(kind) ==
    CASE kind = "text" -> TextCacheFile(RaceDoc)
      [] kind = "csv" -> CsvCacheFile(RacePdfText, RaceUserPrompt)
      [] OTHER -> JsonCacheFile(RaceDoc)

\* a job: where it stands, whether exists() was true, the value it computed
\* or read, and how it ended ("" while it runs)
Job(kind, pc, hit, val, outcome) ==
    [kind |-> kind, pc |-> pc, hit |-> hit, val |-> val, outcome |-> outcome]

\* what the computation of a job can come to: an exception, or the value
\* to put; dir is the cache directory after it
Computed(raised, val, dir) == [raised |-> raised, val |-> val, dir |-> dir]

\* get_pdf_text of index.py after the miss: extraction, gate, OCR
TextComputations ==
    {Computed(FALSE, ExtractOnMiss(prim, ocr).text, cache) :
         prim \in PrimaryOutcomes(RaceDoc), ocr \in OcrOutcomes(RaceDoc)}

\* generate_csv_from_text of index.py after the miss: the generator call
\* and the cleaning; an error and an empty output raise ValueError
CsvComputations ==
    {LET r == GenerateOnMiss(gen)
     IN  Computed(r.outcome = "raised", r.text, cache) :
         gen \in {g \in GeneratorOutcomes : ~g.fenced}}

\* what the generator does on the calls of a job, one outcome for a chunk
JobGenerations(chunks) ==
    {[i \in DOMAIN kinds |-> Response(kinds[i], i)] :
         kinds \in [1..Len(chunks) -> ResponseKinds]}

\* extract_pdf_data of v1/index2.py after the miss: get_pdf_text, the chunk
\* loop, the test for no results; the value is the text of the artifact
ArtifactComputations ==
    UNION {
        {Computed(loop.raised \/ loop.all_results = <<>>,
                  JsonDumps(JsonList(loop.all_results), 0),
                  WriteAll(cache, TextCacheFile(RaceDoc), x.writes)) :
             loop \in {ChunkLoop("v1", Chunks(x.text, MAX_CHARS("v1")), gens, 1, NoLoop) :
                           gens \in JobGenerations(Chunks(x.text, MAX_CHARS("v1")))}} :
        x \in {JobText(cache, RaceDoc, prim, ocr) :
                   prim \in PrimaryOutcomes(RaceDoc), ocr \in JobOcrOutcomes(RaceDoc)}}

Computations(kind) ==
    CASE kind = "text" -> TextComputations
      [] kind = "csv" -> CsvComputations
      [] OTHER -> ArtifactComputations

Step(j, job) == jobs' = [jobs EXCEPT ![j] = job]

\* if cache_file.exists(): (extract_pdf_data has written the upload to
\* (hash).pdf just before)
ExistsStep(j) ==
    LET job == jobs[j]
        hit == RaceKey(job.kind) \in DOMAIN cache
    IN  /\ job.pc = "exists"
        /\ Step(j, [job EXCEPT !.pc = IF hit THEN "read" ELSE "compute", !.hit = hit])
        /\ cache' = IF job.kind = "artifact"
                    THEN Put(cache, <<Sha256(RaceDoc), "pdf">>, RaceDoc)
                    ELSE cache
        /\ UNCHANGED <<prog, fs, last, firstText, firstCsv, output>>

\* return cache_file.read_text(...); extract_pdf_data parses what it read
\* (json.loads), and an exception there ends the job with an error
ReadStep(j) ==
    LET job == jobs[j]
        text == ReadText(cache[RaceKey(job.kind)])
        fails == job.kind = "artifact" /\ ~JsonLoads(text).ok
    IN  /\ job.pc = "read"
        /\ Step(j, [job EXCEPT !.pc = "done", !.val = text,
                       !.outcome = IF fails THEN "error" ELSE "returned"])
        /\ UNCHANGED <<prog, fs, cache, last, firstText, firstCsv, output>>

\* the work of a miss, up to the value to write
ComputeStep(j) ==
    LET job == jobs[j]
    IN  /\ job.pc = "compute"
        /\ \E c \in Computations(job.kind) :
               /\ cache' = c.dir
               /\ Step(j, IF c.raised
                          THEN [job EXCEPT !.pc = "done", !.outcome = "error"]
                          ELSE [job EXCEPT !.pc = "open", !.val = c.val])
        /\ UNCHANGED <<prog, fs, last, firstText, firstCsv, output>>

\* write_text, first half: open(mode "w") creates the file or truncates it
OpenStep(j) ==
    LET job == jobs[j]
    IN  /\ job.pc = "open"
        /\ cache' = Put(cache, RaceKey(job.kind), <<>>)
        /\ Step(j, [job EXCEPT !.pc = "write"])
        /\ UNCHANGED <<prog, fs, last, firstText, firstCsv, output>>

\* write_text, second half: the value is written and the file closed; the
\* job returns the value
WriteStep(j) ==
    LET job == jobs[j]
        before == last.op = "write_text"
    IN  /\ job.pc = "write"
        /\ cache' = Put(cache, RaceKey(job.kind), WriteText(job.val))
        /\ Step(j, [job EXCEPT !.pc = "done", !.outcome = "returned"])
        /\ last' = [NoCall EXCEPT !.op = "write_text", !.path = j,
                       !.text = WriteText(job.val),
                       !.priorKnown = before,
                       !.priorText = IF ~before THEN <<>>
                                     ELSE IF last.priorKnown THEN last.priorText
                                     ELSE last.text]
        /\ UNCHANGED <<prog, fs, firstText, firstCsv, output>>

InitRace ==
    /\ prog \in {"index", "v1"}
    /\ fs = [p \in Paths |-> IF p = "a.pdf" THEN File(RaceDoc) ELSE Missing]
    /\ cache = Empty
    /\ last = NoCall
    /\ firstText = Empty
    /\ firstCsv = Empty
    /\ \E kind \in (IF prog = "index" THEN {"text", "csv"} ELSE {"artifact"}) :
           jobs = [j \in JobIds |-> Job(kind, "exists", FALSE, <<>>, "")]
    /\ output = Empty

NextRace ==
    \E j \in JobIds :
        \/ ExistsStep(j)
        \/ ReadStep(j)
        \/ ComputeStep(j)
        \/ OpenStep(j)
        \/ WriteStep(j)

SpecRace == InitRace /\ [][NextRace]_vars

\* a write_text has completed after an earlier one had
Rewritten == last.op = "write_text" /\ last.priorKnown

\* C16: under any interleaving of jobs on one cache key, an entry that has
\* once been written never changes its value: every later completed write
\* puts the value the first one put.
C16_WrittenEntryNeverChanges == Rewritten => last.text = last.priorText

\* the values that jobs have passed to write_text, as a reader gets them
PutValues ==
    {ReadText(WriteText(jobs[k].val)) :
         k \in {i \in JobIds : /\ ~jobs[i].hit
                               /\ jobs[i].pc \in {"write", "done"}
                               /\ jobs[i].outcome # "error"}}

\* job j found the entry present and has read it
HasReadEntry(j) == jobs[j].hit /\ jobs[j].pc = "done"

\* C20: a job that finds the cache entry present reads a complete value
\* that some job passed to a put, never an empty or partly written entry.
C20_HitReadsCompleteValue ==
    \A j \in JobIds : HasReadEntry(j) => jobs[j].val \in PutValues

\* a job that finds the entry present while no write_text is under way, and
\* reads it before one starts, reads a value that was put
QuietRead(j) ==
    /\ jobs[j].pc = "read"
    /\ \A k \in JobIds : jobs[k].pc # "write"

HitOutsideWriteReadsPutValue ==
    \A j \in JobIds :
        QuietRead(j) => ReadText(cache[RaceKey(jobs[j].kind)]) \in PutValues

----------------------------------------------------------------------------
(* save_csv_file (index.py, pdftocsv/test.py): the name of the file the    *)
(* CSV is saved to.  A behaviour saves for one source path and one         *)
(* instruction, any number of times.                                       *)

MaxPrompt == 3
SafePromptChars == 30

\* the regex class \w on the characters used here
WordChars == Alnum \cup {"_"}

\* re.sub(r"[^\w\s-]", "", user_prompt)
SubUnsafe(user_prompt) ==
    SelectSeq(user_prompt, LAMBDA c : c \in WordChars \cup Whitespace \cup {"-"})

\* str.replace(" ", "_")
ReplaceSpaces(t) == [i \in 1..Len(t) |-> IF t[i] = " " THEN "_" ELSE t[i]]

\* safe_prompt[:30]
SafePrompt(user_prompt) ==
    LET safe_prompt == ReplaceSpaces(Lower(Strip(SubUnsafe(user_prompt))))
    IN  SubSeq(safe_prompt, 1, IF Len(safe_prompt) < SafePromptChars
                               THEN Len(safe_prompt) ELSE SafePromptChars)

\* Path.name: what follows the last "/"
PathName(pdf_path) == DropFirst(pdf_path, LastIndex(pdf_path, "/", Len(pdf_path)))

\* Path.stem: the name without its last suffix
Stem(pdf_path) ==
    LET name == PathName(pdf_path)
        i == LastIndex(name, ".", Len(name))
    IN  IF 1 < i /\ i < Len(name) THEN SubSeq(name, 1, i - 1) ELSE name

DotCsv == <<".", "c", "s", "v">>

\* f"{base_name}_{safe_prompt[:30]}.csv"
FileName(pdf_path, user_prompt) ==
    Stem(pdf_path) \o <<"_">> \o SafePrompt(user_prompt) \o DotCsv

\* the call: the file is written (created or replaced) in the directory
SaveCall(dir, csv_data) ==
    LET filename == FileName(last.params.pdf_path, last.params.user_prompt)
    IN  /\ last.op \in {"save_input", "save_csv_file"}
        /\ output' = Put(output, <<dir, filename>>, WriteText(csv_data))
        /\ last' = [last EXCEPT !.op = "save_csv_file", !.text = filename,
                       !.body = csv_data,
                       !.priorKnown = last.op = "save_csv_file",
                       !.priorText = last.text]
        /\ UNCHANGED <<prog, fs, cache, firstText, firstCsv, jobs>>

\* index.py: OUTPUT_DIR / filename
save_csv_file(csv_data) == prog = "index" /\ SaveCall("output", csv_data)

\* pdftocsv/test.py: Path(filename), in the working directory
save_csv_file_cli(csv_data) == prog = "cli" /\ SaveCall(".", csv_data)

SavePaths ==
    {<<"a", ".", "p", "d", "f">>, <<"d", "/", "a", ".", "p", "d", "f">>,
     <<"a", ".", "b", ".", "p", "d", "f">>, <<"a">>}

\* the characters of the instructions: a capital, a small letter, a space,
\* a tab, a newline, punctuation, a hyphen, an underscore
PromptChars == {"A", "b", " ", "\t", "\n", "!", "-", "_"}

\* the instructions: every string of up to MaxPrompt characters, and
\* strings longer than the part of them that is kept
SavePrompts ==
    UNION {[1..n -> PromptChars] : n \in 0..MaxPrompt}
        \cup {Rep("a", SafePromptChars + 1),
              Rep("a", SafePromptChars - 1) \o <<" ", "B">>,
              Rep("a", SafePromptChars - 1) \o <<"!", "B", "c">>,
              <<" ">> \o Rep("A", SafePromptChars) \o <<"\t", "b">>}

SaveCsvTexts == {<<"h", "\n", "1">>, <<"h", "\n", "2">>}

InitSave ==
    /\ prog \in {"index", "cli"}
    /\ fs = [p \in Paths |-> Missing]
    /\ cache = Empty
    /\ \E pdf_path \in SavePaths, user_prompt \in SavePrompts :
           last = [NoCall EXCEPT !.op = "save_input",
                      !.params = [pdf_path |-> pdf_path, user_prompt |-> user_prompt]]
    /\ firstText = Empty
    /\ firstCsv = Empty
    /\ jobs = Empty
    /\ output = Empty

NextSave ==
    \E csv_data \in SaveCsvTexts :
        \/ save_csv_file(csv_data)
        \/ save_csv_file_cli(csv_data)

SpecSave == InitSave /\ [][NextSave]_vars

----------------------------------------------------------------------------
(* Properties of save_csv_file, checked under SpecSave *)

IsSaveCall == last.op = "save_csv_file"

\* the name written starts with the stem of the source and "_" and ends
\* with ".csv"
NameHasSourceAndSuffix ==
    /\ StartsWith(last.text, Stem(last.params.pdf_path) \o <<"_">>)
    /\ EndsWith(last.text, DotCsv)
    /\ Len(last.text) >= Len(Stem(last.params.pdf_path)) + 1 + Len(DotCsv)

\* the part p of the name between them
NamePart ==
    SubSeq(last.text, Len(Stem(last.params.pdf_path)) + 2,
           Len(last.text) - Len(DotCsv))

PartShortAndLowercase ==
    /\ Len(NamePart) <= SafePromptChars
    /\ \A i \in 1..Len(NamePart) : NamePart[i] = LowerChar(NamePart[i])

PartHasNoWhitespace ==
    \A i \in 1..Len(NamePart) : NamePart[i] \notin Whitespace

PartHasOnlyWordCharsAndHyphens ==
    \A i \in 1..Len(NamePart) : NamePart[i] \in WordChars \cup {"-"}

\* the file of that name holds the CSV of this save, and a second save for
\* the same source and instruction has written the same name
SavedUnderSameName ==
    /\ \E f \in DOMAIN output : f[2] = last.text /\ output[f] = WriteText(last.body)
    /\ last.priorKnown => (last.text = last.priorText /\ Cardinality(DOMAIN output) = 1)

\* C19: save_csv_file writes to (stem of the source)_(p).csv where p has at
\* most 30 characters, is lowercase, and has no whitespace and no character
\* other than word characters, underscores and hyphens; a second save with
\* the same source and instruction writes the same name.
C19_SafeFileName ==
    IsSaveCall =>
        /\ NameHasSourceAndSuffix
        /\ PartShortAndLowercase
        /\ PartHasNoWhitespace
        /\ PartHasOnlyWordCharsAndHyphens
        /\ SavedUnderSameName

\* what the name keeps to: the form, the length, the case, no space
\* character, no character other than word characters, hyphens and the
\* whitespace that is not a space; the same name on a second save
FileNameWithoutSpaces ==
    IsSaveCall =>
        /\ NameHasSourceAndSuffix
        /\ PartShortAndLowercase
        /\ \A i \in 1..Len(NamePart) :
               NamePart[i] \in WordChars \cup {"-"} \cup (Whitespace \ {" "})
        /\ SavedUnderSameName

----------------------------------------------------------------------------
(* process_pdf (curriculum-mappin/index.py): the upload is saved in         *)
(* CACHE_DIR under its sanitized name, then get_pdf_text,                   *)
(* generate_csv_from_text and save_csv_file run on it.  A file name is      *)
(* <<stem, extension>>; the stem is a string of characters or a digest.     *)
(* The bytes of a file are characters: bytes that open with "%" are a PDF   *)
(* of one page whose text layer is the rest, other bytes are not a PDF.     *)

\* the characters re.sub(r"[^a-zA-Z0-9_.-]", "_", ...) keeps
SafeFileChars == Alnum \cup {"_", ".", "-"}

\* a hexdigest: hexadecimal digits, which the substitution keeps
IsDigest(stem) == Len(stem) = 2 /\ stem[1] = "sha256"

\* safe_filename = re.sub(r"[^a-zA-Z0-9_.-]", "_", file.filename)
SafeFilename(filename) ==
    IF IsDigest(filename[1]) THEN filename
    ELSE <<[i \in 1..Len(filename[1]) |->
               IF filename[1][i] \in SafeFileChars THEN filename[1][i] ELSE "_"],
           filename[2]>>

IsPdf(bytes) == bytes # <<>> /\ bytes[1] = "%"

\* the pages pdfplumber and pdf2image find in the bytes
PdfPages(bytes) == <<Tail(bytes)>>

\* pdfplumber.open on the bytes: an error for bytes that are not a PDF
UploadPrimaryOutcomes(bytes) ==
    IF IsPdf(bytes) THEN PrimaryOutcomes(PdfPages(bytes))
    ELSE {[err |-> TRUE, pages |-> <<>>]}

\* convert_from_path on the bytes: an error for bytes that are not a PDF
UploadOcrOutcomes(bytes) ==
    IF IsPdf(bytes) THEN JobOcrOutcomes(PdfPages(bytes))
    ELSE {[err |-> TRUE, pages |-> <<>>]}

\* the answer of process_pdf: the HTTP status, which return gave it, the
\* text sent on to the generator stage, the CSV, and the cache key of the CSV
ProcessResult(status, error, pdf_text, csv_file, csv_data, generatorCalls) ==
    [status |-> status, error |-> error, pdf_text |-> pdf_text,
     csv_file |-> csv_file, csv_data |-> csv_data,
     generatorCalls |-> generatorCalls]

NoCsvFile == <<<<>>, "">>

\* the file save_csv_file writes for the upload and the instruction
SavedName(pdf_path, prompt) == <<"output", <<pdf_path[1], SafePrompt(prompt), "csv">>>>

\* get_pdf_text(pdf_path) inside the job, on the directory dir
ProcessText(dir, pdf_path, prim, ocr) ==
    IF TextCacheFile(dir[pdf_path]) \in DOMAIN dir
    THEN Extraction("returned", ReadText(dir[TextCacheFile(dir[pdf_path])]),
                    <<>>, 0, 0, "cache")
    ELSE ExtractOnMiss(prim, ocr)

\* generate_csv_from_text(pdf_text, prompt) inside the job
ProcessCsv(dir, pdf_text, prompt, gen) ==
    IF CsvCacheFile(pdf_text, prompt) \in DOMAIN dir
    THEN Generation("returned", ReadText(dir[CsvCacheFile(pdf_text, prompt)]), <<>>, 0)
    ELSE GenerateOnMiss(gen)

ProcessAnswer(dir, out, params, result) ==
    /\ cache' = dir
    /\ output' = out
    /\ last' = [NoCall EXCEPT !.op = "process_pdf", !.params = params,
                   !.result = result]

\* the job from the text on: the generator stage and the save
ProcessFromText(dir, pdf_path, params, pdf_text, g) ==
    \E csv_file \in {CsvCacheFile(pdf_text, params.prompt)} :
    \E written \in {WriteAll(dir, csv_file, g.writes)} :
        IF g.outcome = "ValueError"
        THEN ProcessAnswer(written, output, params,
                 ProcessResult(500, "ValueError", pdf_text, csv_file, <<>>,
                               g.generatorCalls))
        ELSE IF SplitLinesLen(g.text) < 2
        THEN ProcessAnswer(written, output, params,
                 ProcessResult(500, "AI failed to generate valid CSV", pdf_text,
                               csv_file, g.text, g.generatorCalls))
        ELSE ProcessAnswer(written,
                 Put(output, SavedName(pdf_path, params.prompt), WriteText(g.text)),
                 params,
                 ProcessResult(200, "", pdf_text, csv_file, g.text,
                               g.generatorCalls))

\* @app.route("/process"): the whole job
process_pdf(filename, content, prompt, prim, ocr, gen) ==
    \E params \in {[filename |-> filename, content |-> content, prompt |-> prompt]} :
        /\ prog = "index"
        /\ IF prompt = <<>> \/ filename[1] = <<>>
           THEN ProcessAnswer(cache, output, params,
                    ProcessResult(400, "missing", <<>>, NoCsvFile, <<>>, 0))
           ELSE \E pdf_path \in {SafeFilename(filename)} :
                \E saved \in {Put(cache, pdf_path, content)} :
                \E x \in {ProcessText(saved, pdf_path, prim, ocr)} :
                \E dir \in {WriteAll(saved, TextCacheFile(content), x.writes)} :
                    IF Strip(x.text) = <<>>
                    THEN ProcessAnswer(dir, output, params,
                             ProcessResult(500, "Could not extract any text", x.text,
                                           NoCsvFile, <<>>, 0))
                    ELSE ProcessFromText(dir, pdf_path, params, x.text,
                             ProcessCsv(dir, x.text, prompt, gen))
        /\ UNCHANGED <<prog, fs, firstText, firstCsv, jobs>>

\* the documents uploaded: a PDF with a text layer, and bytes that are text
DocA == <<"%">> \o Rep("a", 30)
RawText == <<"h", "\n", "1">>
UploadContents == {DocA, RawText}

UploadPrompt == <<"c">>

\* the upload names: a plain name, a name the substitution changes, and the
\* names of the cache entries of DocA
PlainName == <<<<"a">>, "pdf">>
UploadNames ==
    {PlainName, <<<<"a", " ">>, "pdf">>,
     TextCacheFile(DocA),
     CsvCacheFile(PrimaryText(PdfPages(DocA)), UploadPrompt)}

Upload(filename, content, prompt) ==
    [filename |-> filename, content |-> content, prompt |-> prompt]

\* the requests clients send: every name with every content, a request
\* without an instruction and a request without a file name
UploadRequests ==
    {Upload(n, c, UploadPrompt) : n \in UploadNames, c \in UploadContents}
        \cup {Upload(PlainName, DocA, <<>>), Upload(<<<<>>, "">>, DocA, UploadPrompt)}

\* the generator on a job: an error, two lines, one line, nothing
ProcessGenerations ==
    {g \in GeneratorOutcomes :
         ~g.fenced /\ g.body \in {<<>>, <<"h">>, <<"h", "\n", "1">>}}

\* the server starts on an empty cache directory; jobs holds the two requests
\* its clients submit, each any number of times
InitProcess ==
    /\ prog = "index"
    /\ fs = [p \in Paths |-> Missing]
    /\ cache = Empty
    /\ last = NoCall
    /\ firstText = Empty
    /\ firstCsv = Empty
    /\ jobs \in [JobIds -> UploadRequests]
    /\ output = Empty

NextProcess ==
    \E j \in JobIds :
    \E prim \in UploadPrimaryOutcomes(jobs[j].content) :
    \E ocr \in UploadOcrOutcomes(jobs[j].content) :
    \E gen \in ProcessGenerations :
        process_pdf(jobs[j].filename, jobs[j].content, jobs[j].prompt, prim, ocr, gen)

SpecProcess == InitProcess /\ [][NextProcess]_vars

\* the job that ran last: a process_pdf call that got past the 400 answers
IsProcessJob == last.op = "process_pdf" /\ last.result.status # 400

\* the entries of the cache directory named after a fingerprint
TextEntries == {k \in DOMAIN cache : IsDigest(k[1]) /\ k[2] = "txt"}
CsvEntries == {k \in DOMAIN cache : IsDigest(k[1]) /\ k[2] = "csv"}

\* what get_pdf_text can write for a document of these bytes
ExtractedTexts(bytes) ==
    UNION {{x.writes[i] : i \in DOMAIN x.writes} :
               x \in {ExtractOnMiss(prim, ocr) :
                          prim \in UploadPrimaryOutcomes(bytes),
                          ocr \in UploadOcrOutcomes(bytes)}}

\* what generate_csv_from_text can write: a cleaned generator output
CleanedOutputs ==
    UNION {{g.writes[i] : i \in DOMAIN g.writes} :
               g \in {GenerateOnMiss(gen) : gen \in GeneratorOutcomes}}

\* "<h>.txt" holds a text extracted from the document whose fingerprint is h
TextEntriesHoldExtractedText ==
    \A k \in TextEntries : cache[k] \in ExtractedTexts(k[1][2])

\* "<h>.csv" holds a cleaned generator output
CsvEntriesHoldGeneratorOutput ==
    \A k \in CsvEntries : cache[k] \in CleanedOutputs

\* the path the job saved its upload at is not the name of an entry
UploadLeavesEntriesAlone ==
    IsProcessJob => ~IsDigest(SafeFilename(last.params.filename)[1])

\* C22: after any sequence of process_pdf jobs, every "<h>.txt" entry of the
\* cache directory holds the text extracted from a document whose fingerprint
\* is h, every "<h>.csv" entry holds the cleaned generator output of a
\* request, and no upload has created or overwritten such an entry
C22_CacheIntegrity ==
    /\ TextEntriesHoldExtractedText
    /\ CsvEntriesHoldGeneratorOutput
    /\ UploadLeavesEntriesAlone

\* a job on a document was given, as its extracted text, the bytes another
\* upload had put under the entry name of that document
PoisonedTextServed ==
    /\ IsProcessJob
    /\ ~IsDigest(last.params.filename[1])
    /\ last.result.pdf_text \notin
           {ReadText(t) : t \in ExtractedTexts(last.params.content)}

\* the integrity of the entries as long as no upload is named like an entry
CacheIntegrityUnderPlainNames ==
    (\A j \in JobIds : ~IsDigest(jobs[j].filename[1])) =>
        /\ TextEntriesHoldExtractedText
        /\ CsvEntriesHoldGeneratorOutput
        /\ ~PoisonedTextServed

\* the job that ran last called the generator and answered with an error
GeneratorStageError ==
    /\ IsProcessJob
    /\ last.result.status = 500
    /\ last.result.generatorCalls = 1

\* C23: a process_pdf job that ends with an error response after its
\* generator call (generator failure, empty output, or a generated CSV of
\* fewer than two lines) leaves no generated-CSV entry for its (text,
\* instruction) key in the cache directory
C23_ErrorLeavesNoCsvEntry ==
    GeneratorStageError => last.result.csv_file \notin DOMAIN cache

\* a job answered with the error of an earlier job without calling the
\* generator: the one-line CSV was read back from the entry
FailureReplayed ==
    /\ IsProcessJob
    /\ \A j \in JobIds : ~IsDigest(jobs[j].filename[1])
    /\ last.result.status = 500
    /\ last.result.error = "AI failed to generate valid CSV"
    /\ last.result.generatorCalls = 0
    /\ last.result.csv_file \in DOMAIN cache

\* a generator failure and an empty output leave no entry
RaisedErrorLeavesNoCsvEntry ==
    (GeneratorStageError /\ last.result.error = "ValueError") =>
        last.result.csv_file \notin DOMAIN cache

\* an entry left by a job that answered with an error holds one line
ErrorEntryHoldsOneLine ==
    (GeneratorStageError /\ last.result.csv_file \in DOMAIN cache) =>
        /\ last.result.error = "AI failed to generate valid CSV"
        /\ SplitLinesLen(cache[last.result.csv_file]) = 1
        /\ cache[last.result.csv_file] = WriteText(last.result.csv_data)

----------------------------------------------------------------------------
(* Two process_pdf jobs at once: app.run serves each request on a thread of *)
(* its own.  A job goes through file.save, pdf_path.read_bytes and the      *)
(* hash, cache_file.exists, then cache_file.read_text or the extraction,    *)
(* which opens pdf_path again, and last the generator stage.  jobs maps a   *)
(* job to its request, its position and its locals; cache is the directory  *)
(* the jobs share.                                                          *)

DocB == <<"%">> \o Rep("b", 30)

\* two names that are the same once sanitized, and a third name
SharedPathNames == {<<<<"a", " ">>, "pdf">>, <<<<"a", "_">>, "pdf">>, <<<<"b">>, "pdf">>}

ConcurrentUploads ==
    {Upload(n, c, UploadPrompt) : n \in SharedPathNames, c \in {DocA, DocB}}
        \cup {Upload(PlainName, DocA, <<>>)}

\* a job: its request, where it stands, the bytes read_bytes gave it, whether
\* exists() was true, the text it extracted or read, its answer (0 while it
\* runs)
UploadJob(req, pc, pdf_bytes, hit, text, status) ==
    [req |-> req, pc |-> pc, pdf_bytes |-> pdf_bytes, hit |-> hit, text |-> text,
     status |-> status]

PdfPath(j) == SafeFilename(jobs[j].req.filename)

\* the checks on the form, safe_filename, file.save(pdf_path)
SaveUploadStep(j) ==
    /\ jobs[j].pc = "save"
    /\ IF jobs[j].req.prompt = <<>> \/ jobs[j].req.filename[1] = <<>>
       THEN /\ Step(j, [jobs[j] EXCEPT !.pc = "done", !.status = 400])
            /\ UNCHANGED cache
       ELSE /\ Step(j, [jobs[j] EXCEPT !.pc = "read_bytes"])
            /\ cache' = Put(cache, PdfPath(j), jobs[j].req.content)
    /\ UNCHANGED <<prog, fs, last, firstText, firstCsv, output>>

\* pdf_bytes = pdf_path.read_bytes(): what the path holds now
ReadBytesStep(j) ==
    /\ jobs[j].pc = "read_bytes"
    /\ Step(j, [jobs[j] EXCEPT !.pc = "exists", !.pdf_bytes = cache[PdfPath(j)]])
    /\ UNCHANGED <<prog, fs, cache, last, firstText, firstCsv, output>>

\* if cache_file.exists(): for the hash of the bytes read
TextExistsStep(j) ==
    \E hit \in {TextCacheFile(jobs[j].pdf_bytes) \in DOMAIN cache} :
        /\ jobs[j].pc = "exists"
        /\ Step(j, [jobs[j] EXCEPT !.pc = IF hit THEN "read_text" ELSE "extract",
                                   !.hit = hit])
        /\ UNCHANGED <<prog, fs, cache, last, firstText, firstCsv, output>>

\* return cache_file.read_text(encoding="utf-8")
ReadCachedTextStep(j) ==
    /\ jobs[j].pc = "read_text"
    /\ Step(j, [jobs[j] EXCEPT !.pc = "generate",
                   !.text = ReadText(cache[TextCacheFile(jobs[j].pdf_bytes)])])
    /\ UNCHANGED <<prog, fs, cache, last, firstText, firstCsv, output>>

\* pdfplumber.open(pdf_path) and the OCR open the path again; the text is
\* written under the hash of the bytes read before
ExtractTextStep(j) ==
    /\ jobs[j].pc = "extract"
    /\ \E prim \in UploadPrimaryOutcomes(cache[PdfPath(j)]) :
       \E ocr \in UploadOcrOutcomes(cache[PdfPath(j)]) :
       \E x \in {ExtractOnMiss(prim, ocr)} :
           /\ Step(j, [jobs[j] EXCEPT !.pc = "generate", !.text = x.text])
           /\ cache' = WriteAll(cache, TextCacheFile(jobs[j].pdf_bytes), x.writes)
    /\ UNCHANGED <<prog, fs, last, firstText, firstCsv, output>>

\* the test of pdf_text.strip(), generate_csv_from_text, the test of the
\* lines, save_csv_file and the answer
GenerateStep(j) ==
    \E gen \in ProcessGenerations :
        /\ jobs[j].pc = "generate"
        /\ IF Strip(jobs[j].text) = <<>>
           THEN ProcessAnswer(cache, output, jobs[j].req,
                    ProcessResult(500, "Could not extract any text", jobs[j].text,
                                  NoCsvFile, <<>>, 0))
           ELSE ProcessFromText(cache, PdfPath(j), jobs[j].req, jobs[j].text,
                    ProcessCsv(cache, jobs[j].text, jobs[j].req.prompt, gen))
        /\ Step(j, [jobs[j] EXCEPT !.pc = "done", !.status = last'.result.status])
        /\ UNCHANGED <<prog, fs, firstText, firstCsv>>

InitUpload ==
    /\ prog = "index"
    /\ fs = [p \in Paths |-> Missing]
    /\ cache = Empty
    /\ last = NoCall
    /\ firstText = Empty
    /\ firstCsv = Empty
    /\ jobs \in [JobIds -> {UploadJob(req, "save", <<>>, FALSE, <<>>, 0) :
                               req \in ConcurrentUploads}]
    /\ output = Empty

NextUpload ==
    \E j \in JobIds :
        \/ SaveUploadStep(j)
        \/ ReadBytesStep(j)
        \/ TextExistsStep(j)
        \/ ReadCachedTextStep(j)
        \/ ExtractTextStep(j)
        \/ GenerateStep(j)

SpecUpload == InitUpload /\ [][NextUpload]_vars

\* the job has its text and is at or past the generator stage
HasText(j) == jobs[j].pc = "generate" \/ (jobs[j].pc = "done" /\ jobs[j].status # 400)

\* the texts get_pdf_text gives for a document of these bytes
TextsOf(bytes) ==
    {ReadText(WriteText(ExtractOnMiss(prim, ocr).text)) :
         prim \in UploadPrimaryOutcomes(bytes), ocr \in UploadOcrOutcomes(bytes)}

OwnText(j) == HasText(j) => jobs[j].text \in TextsOf(jobs[j].req.content)

\* C21: under any interleaving of two concurrent process_pdf jobs, the text
\* each job extracts and sends to the generator is the text of the document
\* that job itself uploaded, also when the two uploads carry the same
\* sanitized filename and different content
C21_EachJobExtractsItsOwnUpload == \A j \in JobIds : OwnText(j)

\* the two jobs save their uploads at one path and upload different documents
SamePathDifferentContent ==
    /\ PdfPath("job1") = PdfPath("job2")
    /\ jobs["job1"].req.content # jobs["job2"].req.content

\* a job sends on the text of the other job's document
ForeignTextSent ==
    /\ SamePathDifferentContent
    /\ \E j \in JobIds :
           /\ jobs[j].pc = "done"
           /\ jobs[j].status = 200
           /\ jobs[j].text \notin TextsOf(jobs[j].req.content)
           /\ jobs[j].text \in UNION {TextsOf(jobs[k].req.content) : k \in JobIds \ {j}}

\* jobs whose uploads are saved at different paths, or carry the same
\* document, extract the text of their own upload
OwnUploadUnderDistinctPaths ==
    ~SamePathDifferentContent => \A j \in JobIds : OwnText(j)

====
